---- MODULE Spec2Model ----
(***************************************************************************)
(* Antenna radiation-pattern models (ITU-R F.699, F.1245, F.1336 sectoral, *)
(* omni and low-gain, S.465, S.580): the schema-driven parameter validator *)
(* of BaseAntenna.set_params, the per-model _post_set_params resolvers and *)
(* the gain evaluators, as a state machine over one model instance.        *)
(*                                                                         *)
(* Numbers.  Python ints and floats are modelled in fixed point, in        *)
(* thousandths: the value 7.7 is the integer 7700.  A value of the program *)
(* is a record [t, n, s]: t is the Python type ("int", "float", "str" or   *)
(* "none"), n the number in thousandths, s the string.                     *)
(***************************************************************************)
EXTENDS Integers, Sequences, FiniteSets, TLC

VARIABLES
    model,      \* class of the instance: which antenna_models class it is
    params,     \* self.params: a dict, as a function from its keys
    prev,       \* self.params as it was when the last set_params call began
    lastKw,     \* keyword arguments of the last set_params call
    outcome,    \* how the last set_params call ended
    pending,    \* assignments of _post_set_params the writer has yet to make
    pendErr,    \* error _post_set_params raises once pending is exhausted
    target,     \* self.params as the running call leaves it when it returns
    seen,       \* the ParameterSet a concurrent reader observed last
    delegate,   \* self.s465_antenna.params (ITUS580 only)
    query,      \* angles of the last gain query
    gainRes,    \* result of the last gain query
    angle,      \* raw angle handed to a normaliser, before whole turns
    shift,      \* number of whole turns added to the angle
    norm,       \* the last normaliser call: which, its argument, its result
    specs,      \* self.specs: the record _update_specs builds
    request,    \* the last export or plot request: the error it raised and
                \* self.params as it found them
    file,       \* the text the MSI exporter wrote last
    readback,   \* the text read back last, and the record read from it
    sweep       \* the gains of the pattern loop's passes, tabulated

vars == <<model, params, prev, lastKw, outcome, pending, pendErr, target,
          seen, delegate, query, gainRes, angle, shift, norm, specs, request,
          file, readback, sweep>>

-----------------------------------------------------------------------------
(* Values *)

None == [t |-> "none", n |-> 0, s |-> ""]
IntV(i) == [t |-> "int", n |-> i * 1000, s |-> ""]
FltV(m) == [t |-> "float", n |-> m, s |-> ""]
StrV(x) == [t |-> "str", n |-> 0, s |-> x]

IsNone(v) == v.t = "none"
IsNum(v) == v.t \in {"int", "float"}

EmptyDict == [k \in {} |-> None]

\* dict.get(key): None when the key is absent
Get(d, k) == IF k \in DOMAIN d THEN d[k] ELSE None

\* d[key] = value
Put(d, k, v) == [x \in (DOMAIN d) \cup {k} |-> IF x = k THEN v ELSE d[x]]

-----------------------------------------------------------------------------
(* Fixed-point arithmetic.  TLC's integers are 32 bits wide, so products   *)
(* are formed digit by digit and never exceed twice the divisor.           *)

Abs(x) == IF x < 0 THEN -x ELSE x
Max(a, b) == IF a >= b THEN a ELSE b
Min(a, b) == IF a <= b THEN a ELSE b

\* the digit width used for a divisor c < 7 * 10^8: the largest of 20, 10,
\* 5 and 1 bits with c * (2^width + 1) < 2^31, and the number of digits
\* of that width that cover 31 bits
DigitBits(c) == IF c < 2000 THEN 20 ELSE IF c < 2000000 THEN 10
                ELSE IF c <= 60000000 THEN 5 ELSE 1
Digits(c) == IF c < 2000 THEN 2 ELSE IF c < 2000000 THEN 4
             ELSE IF c <= 60000000 THEN 7 ELSE 31

\* floor(ra * b / c) for 0 <= ra < c, from the digits of b in base B, high
\* digit first; qr = <<quotient, remainder>> of ra * (digits seen so far)
RECURSIVE MulDivDigits(_, _, _, _, _, _)
MulDivDigits(ra, b, c, B, i, qr) ==
    IF qr[2] >= c \/ i = 0 THEN qr[1]
    ELSE LET digit == (b \div (B ^ (i - 1))) % B
             carry == qr[2] * B + ra * digit
         IN  MulDivDigits(ra, b, c, B, i - 1,
                          <<qr[1] * B + carry \div c, carry % c>>)

\* floor(a * b / c) for a, b >= 0 and c > 0
MulDivNat(a, b, c) ==
    (a \div c) * b
    + MulDivDigits(a % c, b, c, 2 ^ DigitBits(c), Digits(c), <<0, 0>>)

\* a * b / c, truncated towards zero, for c > 0
MulDiv(a, b, c) ==
    (IF (a < 0) = (b < 0) THEN 1 ELSE -1) * MulDivNat(Abs(a), Abs(b), c)

\* x * y and x / y of two numbers in thousandths
Mul(x, y) == MulDiv(x, y, 1000)
Div(x, y) == MulDiv(IF y > 0 THEN x ELSE -x, 1000, Abs(y))

\* 10 ^ (2 ^ -i) in millionths, i = 1 .. 14
Root10 == <<3162278, 1778279, 1333521, 1154782, 1074608, 1036633, 1018152,
            1009035, 1004507, 1002251, 1001125, 1000562, 1000281, 1000141>>

\* 10 ^ f in millionths for a fraction f = num / den in [0, 1)
RECURSIVE Pow10Frac(_, _, _, _)
Pow10Frac(num, den, i, acc) ==
    IF acc = 0 \/ i > Len(Root10) \/ num = 0 THEN acc
    ELSE IF 2 * num >= den
         THEN Pow10Frac(2 * num - den, den, i + 1,
                        MulDivNat(acc, Root10[i], 1000000))
         ELSE Pow10Frac(2 * num, den, i + 1, acc)

\* math.pow(10, e): e and the result in thousandths
Pow10Scaled(ip, m) ==
    IF ip >= 3 THEN ((m + 500) \div 1000) * (10 ^ ip)
    ELSE IF ip >= 0 THEN (m * (10 ^ ip) + 500) \div 1000
    ELSE (m \div (10 ^ (-ip)) + 500) \div 1000

Pow10(e) == Pow10Scaled(e \div 1000, Pow10Frac(e % 1000, 1000, 1, 1000000))

\* log10 of z / 10^6 for z in [10^6, 10^7), in millionths, bit by bit:
\* squaring z doubles its logarithm
RECURSIVE Log10Frac(_, _, _)
Log10Frac(z, i, w) ==
    IF i = 0 THEN 0
    ELSE LET sq == MulDivNat(z, z, 1000000)
         IN  IF sq >= 10000000
             THEN w + Log10Frac(sq \div 10, i - 1, w \div 2)
             ELSE Log10Frac(sq, i - 1, w \div 2)

\* decimal exponent e of x (thousandths): 10^e <= x / 1000 < 10^(e+1)
RECURSIVE Exp10(_)
Exp10(x) == IF x >= 10000 THEN 1 + Exp10(x \div 10)
            ELSE IF x < 1000 THEN Exp10(x * 10) - 1
            ELSE 0

\* math.log10(x) for x > 0: x and the result in thousandths
Log10(x) ==
    LET e == Exp10(x)
        z == IF e >= 0 THEN MulDivNat(x, 1000, 10 ^ e) ELSE x * 1000 * (10 ^ (-e))
        f == Log10Frac(z, 14, 500000)
    IN  e * 1000 + (f + 500) \div 1000

\* floor of the square root of n, by bisection on [lo, hi)
RECURSIVE ISqrt(_, _, _)
ISqrt(n, lo, hi) ==
    IF hi - lo <= 1 THEN lo
    ELSE LET mid == (lo + hi) \div 2
         IN  IF mid * mid <= n THEN ISqrt(n, mid, hi) ELSE ISqrt(n, lo, mid)

\* math.sqrt(x) for x >= 0: x and the result in thousandths
Sqrt(x) == IF x < 2000000 THEN ISqrt(x * 1000, 0, 46341)
           ELSE MulDivNat(ISqrt(x, 0, 46341), 31623, 1000)

\* math.log10(x) for x > 0 in thousandths, the result in millionths
Log10Millionths(x) ==
    1000000 * Exp10(x)
    + Log10Frac(IF Exp10(x) >= 0 THEN MulDivNat(x, 1000, 10 ^ Exp10(x))
                ELSE x * 1000 * (10 ^ (-Exp10(x))), 14, 500000)

\* coef * 10 ** (ip + log10(m / 10^6)) for m in [10^6, 10^7)
PowerScaled(coef, ip, m) ==
    IF ip >= 0 THEN MulDivNat(coef * (10 ^ ip), m, 1000000)
    ELSE IF ip >= -2 THEN MulDivNat(coef, m, 1000000 * (10 ^ (-ip)))
    ELSE MulDivNat(coef, m \div (10 ^ (-ip - 2)), 100000000)

\* coef * 10 ** e for an exponent e in millionths
PowerOfTen(coef, e) ==
    PowerScaled(coef, e \div 1000000,
                Pow10Frac(e % 1000000, 1000000, 1, 1000000))

\* coef * x ** y for x > 0 and coef >= 0, all in thousandths
Power(coef, x, y) == PowerOfTen(coef, MulDiv(y, Log10Millionths(x), 1000))

\* x ** y for x > 0, as 10 ** (y * log10(x))
Pow(x, y) == Pow10(Mul(y, Log10(x)))

-----------------------------------------------------------------------------
(* Parameter schemas: the PARAMS dictionaries, in declaration order.       *)
(* range is <<lo, hi>> in thousandths or <<>>; allowed is the list of      *)
(* allowed strings or <<>>; depends_on is <<parameter, check>> or <<>>.    *)

Rule(name, category, types, range, allowed, depends_on) ==
    [name |-> name, category |-> category, types |-> types, range |-> range,
     allowed |-> allowed, depends_on |-> depends_on]

Number == {"int", "float"}

PARAMS_ITUF699 == <<
    Rule("oper_freq_mhz", "mandatory", Number, <<100000, 86000000>>, <<>>, <<>>),
    Rule("diameter_m", "optional", Number, <<1, 99999>>, <<>>, <<>>),
    Rule("max_gain_dbi", "optional", Number, <<-29900, 89900>>, <<>>, <<>>),
    Rule("beamwidth_deg", "optional", Number, <<1, 179999>>, <<>>, <<>>) >>

PARAMS_ITUF1245 == <<
    Rule("oper_freq_mhz", "mandatory", Number, <<1000000, 86000000>>, <<>>, <<>>),
    Rule("calc_opt", "mandatory", {"str"}, <<>>, <<"Rec. 2", "Rec. 3">>, <<>>),
    Rule("max_gain_dbi", "optional", Number, <<-29900, 89900>>, <<>>, <<>>),
    Rule("diameter_m", "optional", Number, <<1, 99999>>, <<>>, <<>>) >>

PARAMS_ITUF1336lg == <<
    Rule("oper_freq_mhz", "mandatory", Number, <<1000000, 3000000>>, <<>>, <<>>),
    Rule("max_gain_dbi", "mandatory", Number, <<-29900, 20000>>, <<>>, <<>>) >>

PARAMS_ITUS465 == <<
    Rule("oper_freq_mhz", "optional", Number, <<2000000, 31000000>>, <<>>, <<>>),
    Rule("diameter_m", "optional", Number, <<1, 99999>>, <<>>, <<>>),
    Rule("d_to_l", "optional", Number, <<1, 10000000>>, <<>>, <<>>) >>

PARAMS_ITUS580 == <<
    Rule("oper_freq_mhz", "optional", Number, <<1000000, 100000000>>, <<>>, <<>>),
    Rule("diameter_m", "optional", Number, <<1, 14999>>, <<>>, <<>>),
    Rule("d_to_l", "optional", Number, <<50000, 10000000>>, <<>>, <<>>) >>

PARAMS_ITUF1336o == <<
    Rule("oper_freq_mhz", "mandatory", Number, <<400000, 70000000>>, <<>>, <<>>),
    Rule("max_gain_dbi", "mandatory", Number, <<-29900, 59900>>, <<>>, <<>>),
    Rule("pattern_type", "mandatory", {"str"}, <<>>, <<"average", "peak">>, <<>>),
    Rule("performance_type", "mandatory", {"str"}, <<>>,
         <<"typical", "improved">>, <<>>),
    Rule("tilt_type", "mandatory", {"str"}, <<>>, <<"none", "electrical">>, <<>>),
    Rule("tilt_angle_deg", "conditional", Number, <<-89900, 89900>>, <<>>,
         <<"tilt_type", "not_none">>),
    Rule("beamwidth_el_deg", "optional", Number, <<100, 179900>>, <<>>, <<>>),
    Rule("k", "optional", {"float"}, <<1, 999>>, <<>>, <<>>) >>

PARAMS_ITUF1336s == <<
    Rule("oper_freq_mhz", "mandatory", Number, <<400000, 70000000>>, <<>>, <<>>),
    Rule("max_gain_dbi", "mandatory", Number, <<-29900, 59900>>, <<>>, <<>>),
    Rule("beamwidth_az_deg", "mandatory", Number, <<100, 359900>>, <<>>, <<>>),
    Rule("pattern_type", "mandatory", {"str"}, <<>>, <<"average", "peak">>, <<>>),
    Rule("performance_type", "mandatory", {"str"}, <<>>,
         <<"typical", "improved">>, <<>>),
    Rule("tilt_type", "mandatory", {"str"}, <<>>,
         <<"none", "mechanical", "electrical">>, <<>>),
    Rule("tilt_angle_deg", "conditional", Number, <<-89900, 89900>>, <<>>,
         <<"tilt_type", "not_none">>),
    Rule("beamwidth_el_deg", "conditional", Number, <<100, 179900>>, <<>>,
         <<"beamwidth_az_deg", "above_120">>),
    Rule("k_p", "optional", {"float"}, <<1, 999>>, <<>>, <<>>),
    Rule("k_a", "optional", {"float"}, <<1, 999>>, <<>>, <<>>),
    Rule("k_h", "optional", {"float"}, <<1, 999>>, <<>>, <<>>),
    Rule("k_v", "optional", {"float"}, <<1, 999>>, <<>>, <<>>) >>

Models == {"ITUF699", "ITUF1245", "ITUF1336lg", "ITUF1336o", "ITUF1336s",
           "ITUS465", "ITUS580"}

PARAMS(m) ==
    CASE m = "ITUF699" -> PARAMS_ITUF699
      [] m = "ITUF1245" -> PARAMS_ITUF1245
      [] m = "ITUF1336lg" -> PARAMS_ITUF1336lg
      [] m = "ITUF1336o" -> PARAMS_ITUF1336o
      [] m = "ITUF1336s" -> PARAMS_ITUF1336s
      [] m = "ITUS465" -> PARAMS_ITUS465
      [] m = "ITUS580" -> PARAMS_ITUS580

-----------------------------------------------------------------------------
(* The validator: the loop of BaseAntenna.set_params *)

NoError == [kind |-> "", param |-> "", dep |-> ""]
Error(kind, param, dep) == [kind |-> kind, param |-> param, dep |-> dep]

\* a dependency clause that is taken to hold whatever the dependency is
DepAlways(check, dep_value) == "yes"

\* the lambdas of depends_on, applied to the raw value of the dependency:
\* "raise" when the comparison itself raises TypeError (x > 120 on a
\* value that is no number)
DepCheck(check, dep_value) ==
    CASE check = "not_none" ->
            IF dep_value.t = "str" /\ dep_value.s = "none" THEN "no" ELSE "yes"
      [] check = "above_120" ->
            IF ~IsNum(dep_value) THEN "raise"
            ELSE IF dep_value.n > 120000 THEN "yes" ELSE "no"

InList(x, list) == \E i \in 1..Len(list) : list[i] = x

\* the conditional-parameter block of the loop body: the error it raises,
\* or NoError
ConditionalCheck(rules, kwargs) ==
    LET value == Get(kwargs, rules.name)
        dep_param == rules.depends_on[1]
        dep_value == Get(kwargs, dep_param)
        holds == DepCheck(rules.depends_on[2], dep_value)
    IN  IF rules.category # "conditional" \/ rules.depends_on = <<>> THEN NoError
        ELSE IF holds = "raise" THEN Error("TypeError", dep_param, "")
        ELSE IF holds = "yes" /\ IsNone(value)
             THEN Error("MissingParameter", rules.name, dep_param)
        ELSE NoError

TypeCheck(rules, value) ==
    IF ~IsNone(value) /\ value.t \notin rules.types
    THEN Error("TypeMismatch", rules.name, "") ELSE NoError

RangeCheck(rules, value) ==
    IF rules.range # <<>> /\ ~IsNone(value)
       /\ ~(rules.range[1] <= value.n /\ value.n <= rules.range[2])
    THEN Error("OutOfRange", rules.name, "") ELSE NoError

AllowedCheck(rules, value) ==
    IF rules.allowed # <<>> /\ ~IsNone(value) /\ ~InList(value.s, rules.allowed)
    THEN Error("NotAllowed", rules.name, "") ELSE NoError

\* the checks with the range looked at before the type
ValueChecksRangeFirst(rules, kwargs) ==
    IF ConditionalCheck(rules, kwargs) # NoError
    THEN ConditionalCheck(rules, kwargs)
    ELSE IF RangeCheck(rules, Get(kwargs, rules.name)) # NoError
    THEN RangeCheck(rules, Get(kwargs, rules.name))
    ELSE IF TypeCheck(rules, Get(kwargs, rules.name)) # NoError
    THEN TypeCheck(rules, Get(kwargs, rules.name))
    ELSE AllowedCheck(rules, Get(kwargs, rules.name))

\* the checks made on one present or conditional value, in the loop's order
ValueChecks(rules, kwargs) ==
    LET value == Get(kwargs, rules.name)
        c == ConditionalCheck(rules, kwargs)
        t == TypeCheck(rules, value)
        r == RangeCheck(rules, value)
        a == AllowedCheck(rules, value)
    IN  IF c # NoError THEN c
        ELSE IF t # NoError THEN t
        ELSE IF r # NoError THEN r
        ELSE a

\* one pass of the loop body for the i-th declared parameter:
\* [err, store]: the error raised, and whether the value is stored
CheckParam(rules, kwargs) ==
    LET value == Get(kwargs, rules.name)
    IN  IF rules.category = "mandatory" /\ IsNone(value)
        THEN [err |-> Error("MissingParameter", rules.name, ""), store |-> FALSE]
        ELSE IF rules.category = "optional" /\ IsNone(value)
        THEN [err |-> NoError, store |-> FALSE]
        ELSE [err |-> ValueChecks(rules, kwargs), store |-> TRUE]

\* the order in which the loop visits the schema
NextParam(i) == i + 1

\* a call that goes on from the dict of the call before
kept_params(old) == old

\* validated_params = {} at the start of the call
validated_params(old) == EmptyDict

\* the loop from the i-th parameter on, validated being what is stored so far
RECURSIVE ValidateFrom(_, _, _, _)
ValidateFrom(schema, kwargs, i, validated) ==
    IF i > Len(schema) THEN [err |-> NoError, validated |-> validated]
    ELSE LET c == CheckParam(schema[i], kwargs)
         IN  IF c.err # NoError THEN [err |-> c.err, validated |-> validated]
             ELSE ValidateFrom(schema, kwargs, NextParam(i),
                     IF c.store
                     THEN Put(validated, schema[i].name,
                              Get(kwargs, schema[i].name))
                     ELSE validated)

Validate(m, old, kwargs) == ValidateFrom(PARAMS(m), kwargs, 1, validated_params(old))

-----------------------------------------------------------------------------
(* The resolvers: _post_set_params of each model, as the list of the       *)
(* assignments self.params[key] = value it makes, in order, with the       *)
(* error it raises before the first of them (pre) or after the last        *)
(* (post).  p is self.params as the validator published it.                *)

Plan(pre, assigns, post) == [pre |-> pre, assigns |-> assigns, post |-> post]
Has(p, k) == ~IsNone(Get(p, k))

\* 299.792458 / frequency, in millionths of a metre
wavelength(frequency) == MulDivNat(299792458, 1000, frequency)

\* diameter_m / wavelength
d_to_l_from_diameter(diameter, frequency) ==
    MulDivNat(diameter, 1000000, wavelength(frequency))

\* math.pow(10, (g_max - 7.7) / 20)
d_to_l_from_g_max(g_max) == Pow10((g_max - 7700) \div 20)

\* the power form of the gain: 10 * math.log10(d_to_l) + 7.7
g_max_power_form(d_to_l) == 10 * Log10(d_to_l) + 7700

\* 20 * math.log10(d_to_l) + 7.7
g_max_from_d_to_l(d_to_l) == 20 * Log10(d_to_l) + 7700

\* 70 / beamwidth
d_to_l_from_beamwidth(beamwidth) == Div(70000, beamwidth)

\* 44.5 - 20 * math.log10(beamwidth)
g_max_from_beamwidht(beamwidth) == 44500 - 20 * Log10(beamwidth)

freq_band_ITUF699(frequency) ==
    IF frequency <= 1000000 THEN <<"0.1-1 GHz">>
    ELSE IF frequency <= 70000000 THEN <<"1-70 GHz">>
    ELSE IF frequency <= 86000000 THEN <<"70-86 GHz">>
    ELSE <<>>

\* the cases without the fifth: max_gain_dbi and beamwidth_deg together
\* are met by no test
case_ITUF699_six(p) ==
    LET g == Has(p, "max_gain_dbi")
        d == Has(p, "diameter_m")
        b == Has(p, "beamwidth_deg")
    IN  CASE g /\ ~d /\ ~b -> 1
          [] ~g /\ d /\ ~b -> 2
          [] g /\ d /\ ~b -> 3
          [] ~g /\ ~d /\ b -> 4
          [] ~g /\ d /\ b -> 6
          [] g /\ d /\ b -> 7
          [] OTHER -> 0

\* the seven input availability cases of ITUF699: which of max_gain_dbi,
\* diameter_m and beamwidth_deg were supplied
case_ITUF699(p) ==
    LET g == Has(p, "max_gain_dbi")
        d == Has(p, "diameter_m")
        b == Has(p, "beamwidth_deg")
    IN  CASE g /\ ~d /\ ~b -> 1
          [] ~g /\ d /\ ~b -> 2
          [] g /\ d /\ ~b -> 3
          [] ~g /\ ~d /\ b -> 4
          [] g /\ ~d /\ b -> 5
          [] ~g /\ d /\ b -> 6
          [] g /\ d /\ b -> 7
          [] OTHER -> 0

post_ITUF699(p) ==
    LET f == p["oper_freq_mhz"].n
        band == freq_band_ITUF699(f)
        c == case_ITUF699(p)
        from_d == d_to_l_from_diameter(p["diameter_m"].n, f)
    IN  IF c = 0 THEN Plan("IncompleteParameters", <<>>, "")
        ELSE Plan("",
            (IF band # <<>> THEN << <<"freq_band", StrV(band[1])>> >> ELSE <<>>)
            \o (IF c \in {1, 5} THEN << <<"d_to_l", FltV(d_to_l_from_g_max(p["max_gain_dbi"].n))>> >> ELSE <<>>)
            \o (IF c \in {2, 6} THEN << <<"d_to_l", FltV(from_d)>>,
                    <<"max_gain_dbi", FltV(g_max_from_d_to_l(from_d))>> >> ELSE <<>>)
            \o (IF c \in {3, 7} THEN << <<"d_to_l", FltV(from_d)>> >> ELSE <<>>)
            \o (IF c = 4 THEN << <<"d_to_l", FltV(d_to_l_from_beamwidth(p["beamwidth_deg"].n))>>,
                    <<"max_gain_dbi",
                      FltV(g_max_from_beamwidht(p["beamwidth_deg"].n))>> >> ELSE <<>>),
            "")

post_ITUF1245(p) ==
    LET f == p["oper_freq_mhz"].n
        g == Has(p, "max_gain_dbi")
        d == Has(p, "diameter_m")
        from_d == d_to_l_from_diameter(p["diameter_m"].n, f)
    IN  IF ~d /\ ~g THEN Plan("IncompleteParameters", <<>>, "")
        ELSE Plan("",
            << <<"freq_band",
                 StrV(IF f < 70000000 THEN "1-70 GHz" ELSE "70-86 GHz")>> >>
            \o (IF g /\ ~d THEN << <<"d_to_l", FltV(d_to_l_from_g_max(p["max_gain_dbi"].n))>> >> ELSE <<>>)
            \o (IF ~g /\ d THEN << <<"d_to_l", FltV(from_d)>>,
                    <<"max_gain_dbi", FltV(g_max_from_d_to_l(from_d))>> >> ELSE <<>>)
            \o (IF g /\ d THEN << <<"d_to_l", FltV(from_d)>> >> ELSE <<>>),
            "")

post_ITUF1336lg(p) == Plan("", <<>>, "")

\* cases 2 and 4 of ITUS465 and ITUS580 raise; case 6 derives d_to_l
incomplete_ITUS(p) ==
    \/ ~Has(p, "oper_freq_mhz") /\ Has(p, "diameter_m") /\ ~Has(p, "d_to_l")
    \/ Has(p, "oper_freq_mhz") /\ ~Has(p, "diameter_m") /\ ~Has(p, "d_to_l")

\* d_to_l taken from the dish whenever frequency and diameter are there
derive_ITUS_from_dish(p) ==
    (IF Has(p, "oper_freq_mhz") /\ Has(p, "diameter_m") THEN << <<"d_to_l",
              FltV(d_to_l_from_diameter(p["diameter_m"].n,
                                        p["oper_freq_mhz"].n))>> >> ELSE <<>>)

derive_ITUS(p) ==
    (IF Has(p, "oper_freq_mhz") /\ Has(p, "diameter_m") /\ ~Has(p, "d_to_l") THEN << <<"d_to_l",
              FltV(d_to_l_from_diameter(p["diameter_m"].n,
                                        p["oper_freq_mhz"].n))>> >> ELSE <<>>)

post_ITUS465(p) ==
    IF incomplete_ITUS(p) THEN Plan("IncompleteParameters", <<>>, "")
    ELSE Plan("", derive_ITUS(p), "")

\* the closing check of ITUS580: self.params['d_to_l'] < 50
check_d_to_l_ITUS580(p, assigns) ==
    IF assigns # <<>> THEN
        IF assigns[1][2].n < 50000 THEN "InvalidParameterValue" ELSE ""
    ELSE IF "d_to_l" \notin DOMAIN p THEN "KeyError"
    ELSE IF p["d_to_l"].n < 50000 THEN "InvalidParameterValue"
    ELSE ""

post_ITUS580(p) ==
    IF incomplete_ITUS(p) THEN Plan("IncompleteParameters", <<>>, "")
    ELSE Plan("", derive_ITUS(p), check_d_to_l_ITUS580(p, derive_ITUS(p)))

\* 10 ** (-0.1 * g_0), in millionths
pow_minus_tenth(g_0) ==
    LET e == -(g_0 \div 10)
        ip == e \div 1000
        m == Pow10Frac(e % 1000, 1000, 1, 1000000)
    IN  IF ip >= 0 THEN m * (10 ^ ip) ELSE m \div (10 ^ (-ip))

\* ITUF1336s.__theta_3: (31000.0 * 10 ** (-0.1 * g_0)) / phi_3
theta_3(p) ==
    MulDivNat(pow_minus_tenth(p["max_gain_dbi"].n), 31000,
              p["beamwidth_az_deg"].n)

tilt_reset(p) ==
    (IF ~Has(p, "tilt_angle_deg") \/ p["tilt_type"].s = "none" THEN << <<"tilt_angle_deg", IntV(0)>> >> ELSE <<>>)

post_ITUF1336s(p) ==
    LET typical == p["performance_type"].s = "typical"
    IN  Plan("",
        << <<"freq_range",
             StrV(IF p["oper_freq_mhz"].n <= 6000000 THEN "0.4-6 GHz"
                  ELSE "6-70 GHz")>> >>
        \o tilt_reset(p)
        \o (IF ~Has(p, "beamwidth_el_deg") THEN << <<"beamwidth_el_deg", FltV(theta_3(p))>> >> ELSE <<>>)
        \o (IF ~Has(p, "k_p") THEN << <<"k_p", FltV(700)>> >> ELSE <<>>)
        \o (IF ~Has(p, "k_a") THEN << <<"k_a", FltV(700)>> >> ELSE <<>>)
        \o (IF ~Has(p, "k_h") THEN << <<"k_h", FltV(IF typical THEN 800 ELSE 700)>> >> ELSE <<>>)
        \o (IF ~Has(p, "k_v") THEN << <<"k_v", FltV(IF typical THEN 700 ELSE 300)>> >> ELSE <<>>),
        "")

post_ITUF1336o(p) ==
    Plan("",
        (IF ~Has(p, "beamwidth_el_deg") THEN << <<"beamwidth_el_deg",
                  FltV(MulDivNat(pow_minus_tenth(p["max_gain_dbi"].n),
                                 107600, 1000000))>> >> ELSE <<>>)
        \o tilt_reset(p)
        \o (IF ~Has(p, "k") THEN << <<"k", IF p["performance_type"].s = "typical"
                             /\ p["oper_freq_mhz"].n <= 3000000
                          THEN FltV(700) ELSE IntV(0)>> >> ELSE <<>>),
        "")

post_set_params(m, p) ==
    CASE m = "ITUF699" -> post_ITUF699(p)
      [] m = "ITUF1245" -> post_ITUF1245(p)
      [] m = "ITUF1336lg" -> post_ITUF1336lg(p)
      [] m = "ITUF1336o" -> post_ITUF1336o(p)
      [] m = "ITUF1336s" -> post_ITUF1336s(p)
      [] m = "ITUS465" -> post_ITUS465(p)
      [] m = "ITUS580" -> post_ITUS580(p)

\* self.params after the first n assignments of a plan
RECURSIVE Apply(_, _, _)
Apply(p, assigns, n) ==
    IF n = 0 THEN p
    ELSE Put(Apply(p, assigns, n - 1), assigns[n][1], assigns[n][2])

-----------------------------------------------------------------------------------------------------------------------------------------------------
(* set_params.  A call is described by where it stands when the validator  *)
(* and the entry check of _post_set_params are through: self.params as     *)
(* published, the assignments the hook has yet to make (pending), the      *)
(* error it raises after them (pendErr) and self.params once they are made *)
(* (target).  How a call ended is a status "ok", or "error" with the error *)
(* and the step (validate or post) that raised it; "running" is a call     *)
(* with assignments of the hook still to come.                             *)

Ended(status, step, err) == [status |-> status, step |-> step, err |-> err]
NotCalled == Ended("none", "", NoError)
Running == Ended("running", "post", NoError)

Stands(p, ended, assigns, post, done) ==
    [params |-> p, ended |-> ended, pending |-> assigns, pendErr |-> post,
     target |-> done]

\* self.params = validated_params: what the instance holds once the
\* validator has returned
publish(old, validated) == validated

\* a validator that assigns what it has validated when it raises
validate_commit(old, validated) == validated

\* self.params when the validator raises: validated_params is a local of
\* the call, and the instance's dict has not been touched yet
validate_abort(old, validated) == old

\* self.params when _post_set_params raises before its first assignment
post_abort(old, p) == p

\* the hook has been entered with self.params = p and plans plan
begin_plan(old, p, plan) ==
    IF plan.pre # ""
    THEN Stands(post_abort(old, p),
                Ended("error", "post", Error(plan.pre, "", "")), <<>>, "",
                post_abort(old, p))
    ELSE Stands(p, Running, plan.assigns, plan.post,
                Apply(p, plan.assigns, Len(plan.assigns)))

\* the validator has ended as v
begin_validated(m, old, v) ==
    IF v.err # NoError
    THEN Stands(validate_abort(old, v.validated),
                Ended("error", "validate", v.err), <<>>, "",
                validate_abort(old, v.validated))
    ELSE begin_plan(old, publish(old, v.validated),
                    post_set_params(m, publish(old, v.validated)))

\* set_params up to the first assignment of _post_set_params
begin(m, old, kwargs) == begin_validated(m, old, Validate(m, old, kwargs))

\* how the hook ends once its assignments are made
post_end(post) ==
    IF post = "" THEN Ended("ok", "", NoError)
    ELSE Ended("error", "post", Error(post, "", ""))

\* the rest of the call: [params, ended]
finish(b) ==
    IF b.ended.status = "running"
    THEN [params |-> b.target, ended |-> post_end(b.pendErr)]
    ELSE [params |-> b.params, ended |-> b.ended]

\* set_params(**kwargs) as one call on an instance holding old
set_params(m, old, kwargs) == finish(begin(m, old, kwargs))

-----
(* Keyword arguments of the configuration calls the model makes: for each  *)
(* class the calls of the demo and of the tests, one call per input        *)
(* availability case of its resolver, and calls that break one rule of the *)
(* schema or several at once.                                              *)

kw_ITUF699(f, d, g, b) ==
    [oper_freq_mhz |-> f, diameter_m |-> d, max_gain_dbi |-> g,
     beamwidth_deg |-> b]

Kwargs_ITUF699 ==
    { kw_ITUF699(IntV(23000), IntV(6), IntV(45), None),
      kw_ITUF699(IntV(23000), IntV(6), None, None),
      kw_ITUF699(IntV(23000), IntV(1), None, None),
      kw_ITUF699(IntV(500), IntV(6), None, None),
      kw_ITUF699(IntV(500), FltV(100), None, None),
      kw_ITUF699(IntV(23000), None, IntV(45), None),
      kw_ITUF699(IntV(23000), None, None, IntV(1)),
      kw_ITUF699(IntV(23000), None, IntV(45), IntV(1)),
      kw_ITUF699(IntV(23000), IntV(6), None, IntV(1)),
      kw_ITUF699(IntV(23000), IntV(6), IntV(45), IntV(1)),
      kw_ITUF699(IntV(23000), None, None, None),
      kw_ITUF699(None, IntV(6), None, None),
      kw_ITUF699(IntV(50), IntV(6), StrV("45"), None),
      kw_ITUF699(IntV(23000), IntV(6), StrV("45"), None),
      kw_ITUF699(IntV(23000), IntV(100), IntV(45), None) }

kw_ITUF1245(f, c, g, d) ==
    [oper_freq_mhz |-> f, calc_opt |-> c, max_gain_dbi |-> g, diameter_m |-> d]

Kwargs_ITUF1245 ==
    { kw_ITUF1245(IntV(26875), StrV("Rec. 2"), IntV(48), None),
      kw_ITUF1245(IntV(26875), StrV("Rec. 3"), None, FltV(1800)),
      kw_ITUF1245(IntV(75000), StrV("Rec. 2"), IntV(48), FltV(1800)),
      kw_ITUF1245(IntV(26875), StrV("Rec. 2"), None, None),
      kw_ITUF1245(IntV(26875), StrV("Rec. 4"), IntV(48), None),
      kw_ITUF1245(IntV(500), StrV("Rec. 4"), IntV(90), None),
      kw_ITUF1245(IntV(26875), None, IntV(48), None),
      kw_ITUF1245(IntV(26875), IntV(2), IntV(48), None),
      kw_ITUF1245(IntV(26875), StrV("Rec. 3"), IntV(90), None) }

kw_ITUF1336lg(f, g) == [oper_freq_mhz |-> f, max_gain_dbi |-> g]

Kwargs_ITUF1336lg ==
    { kw_ITUF1336lg(IntV(2000), IntV(10)),
      kw_ITUF1336lg(IntV(2000), IntV(15)),
      kw_ITUF1336lg(IntV(1000), FltV(-5500)),
      kw_ITUF1336lg(IntV(500), IntV(10)),
      kw_ITUF1336lg(None, IntV(10)),
      kw_ITUF1336lg(IntV(2000), None),
      kw_ITUF1336lg(IntV(2000), IntV(25)),
      kw_ITUF1336lg(IntV(2000), StrV("10")),
      kw_ITUF1336lg(IntV(500), StrV("10")) }

kw_ITUS(f, d, r) == [oper_freq_mhz |-> f, diameter_m |-> d, d_to_l |-> r]

Kwargs_ITUS465 ==
    { kw_ITUS(None, None, None),
      kw_ITUS(None, None, IntV(100)),
      kw_ITUS(None, FltV(1850), None),
      kw_ITUS(None, FltV(1850), IntV(40)),
      kw_ITUS(IntV(2000), None, None),
      kw_ITUS(IntV(2000), None, IntV(30)),
      kw_ITUS(IntV(2000), FltV(1850), None),
      kw_ITUS(IntV(31000), FltV(1850), None),
      kw_ITUS(IntV(2000), FltV(1850), IntV(20000)),
      kw_ITUS(IntV(2000), FltV(1850), IntV(100)),
      kw_ITUS(IntV(1000), FltV(1850), None) }

Kwargs_ITUS580 ==
    { kw_ITUS(None, None, None),
      kw_ITUS(None, None, IntV(100)),
      kw_ITUS(None, None, IntV(30)),
      kw_ITUS(None, FltV(1850), None),
      kw_ITUS(None, FltV(1850), IntV(50)),
      kw_ITUS(IntV(77500), None, None),
      kw_ITUS(IntV(77500), FltV(1850), None),
      kw_ITUS(IntV(2000), FltV(300), None),
      kw_ITUS(IntV(2000), FltV(1850), IntV(100)),
      kw_ITUS(IntV(500), IntV(20), None) }

kw_ITUF1336o(f, pattern, tilt, beta, el, k) ==
    [oper_freq_mhz |-> f, max_gain_dbi |-> IntV(10), pattern_type |-> pattern,
     performance_type |-> StrV("typical"), tilt_type |-> tilt,
     tilt_angle_deg |-> beta, beamwidth_el_deg |-> el, k |-> k]

Kwargs_ITUF1336o ==
    { kw_ITUF1336o(IntV(806), StrV("peak"), StrV("none"), None, None, None),
      kw_ITUF1336o(IntV(806), StrV("average"), StrV("none"), None, None, None),
      kw_ITUF1336o(IntV(3500), StrV("peak"), StrV("none"), None, None, None),
      kw_ITUF1336o(IntV(806), StrV("peak"), StrV("none"), IntV(3), IntV(8),
                   FltV(500)),
      kw_ITUF1336o(IntV(806), StrV("peak"), StrV("electrical"), IntV(3),
                   IntV(8), FltV(500)),
      kw_ITUF1336o(IntV(806), StrV("average"), StrV("electrical"), IntV(3),
                   None, None),
      kw_ITUF1336o(IntV(806), StrV("peak"), StrV("electrical"), None, None,
                   None),
      kw_ITUF1336o(IntV(806), StrV("peak"), StrV("mechanical"), None, None,
                   None),
      kw_ITUF1336o(IntV(806), StrV("peak"), StrV("none"), None, None, IntV(1)),
      kw_ITUF1336o(IntV(806), StrV("peak"), StrV("none"), None, None,
                   FltV(1500)),
      kw_ITUF1336o(IntV(50), StrV("both"), StrV("electrical"), None, None,
                   None) }

kw_ITUF1336s(f, az, pattern, tilt, beta, el, k) ==
    [oper_freq_mhz |-> f, max_gain_dbi |-> IntV(15), beamwidth_az_deg |-> az,
     pattern_type |-> pattern, performance_type |-> StrV("improved"),
     tilt_type |-> tilt, tilt_angle_deg |-> beta, beamwidth_el_deg |-> el,
     k_p |-> None, k_a |-> k, k_h |-> k, k_v |-> k]

Kwargs_ITUF1336s ==
    { kw_ITUF1336s(IntV(806), IntV(65), StrV("peak"), StrV("none"), None,
                   None, None),
      kw_ITUF1336s(IntV(806), IntV(65), StrV("average"), StrV("none"), None,
                   None, None),
      kw_ITUF1336s(IntV(806), IntV(65), StrV("average"), StrV("none"),
                   IntV(3), IntV(17), FltV(500)),
      kw_ITUF1336s(IntV(806), IntV(65), StrV("average"), StrV("electrical"),
                   IntV(3), IntV(17), FltV(500)),
      kw_ITUF1336s(IntV(806), IntV(65), StrV("peak"), StrV("mechanical"),
                   IntV(3), None, None),
      kw_ITUF1336s(IntV(806), IntV(65), StrV("peak"), StrV("electrical"),
                   None, None, None),
      kw_ITUF1336s(IntV(806), IntV(130), StrV("peak"), StrV("none"), None,
                   None, None),
      kw_ITUF1336s(IntV(806), IntV(130), StrV("peak"), StrV("none"), None,
                   IntV(10), None),
      kw_ITUF1336s(IntV(806), IntV(65), StrV("peak"), StrV("none"), None,
                   FltV(22500), None),
      kw_ITUF1336s(IntV(806), IntV(130), StrV("average"), StrV("none"), None,
                   FltV(22500), None),
      kw_ITUF1336s(IntV(806), StrV("65"), StrV("peak"), StrV("none"), None,
                   None, None),
      kw_ITUF1336s(IntV(806), IntV(65), StrV("peak"), StrV("none"), None,
                   None, IntV(1)),
      kw_ITUF1336s(IntV(50), IntV(130), StrV("peak"), StrV("electrical"),
                   None, None, None) }

Kwargs(m) ==
    CASE m = "ITUF699" -> Kwargs_ITUF699
      [] m = "ITUF1245" -> Kwargs_ITUF1245
      [] m = "ITUF1336lg" -> Kwargs_ITUF1336lg
      [] m = "ITUF1336o" -> Kwargs_ITUF1336o
      [] m = "ITUF1336s" -> Kwargs_ITUF1336s
      [] m = "ITUS465" -> Kwargs_ITUS465
      [] m = "ITUS580" -> Kwargs_ITUS580

\* The configurations whose gain is queried off boresight and whose
\* patterns are produced: dishes of every d_to_l class and band, peak gains
\* below the first side lobe and below the floors, and the sector and omni
\* patterns without and (omni) with tilt.
Configs_ITUF699 ==
    { kw_ITUF699(IntV(23000), IntV(6), None, None),
      kw_ITUF699(IntV(23000), None, IntV(5), None),
      kw_ITUF699(IntV(23000), IntV(6), IntV(-20), None),
      kw_ITUF699(IntV(23000), FltV(500), IntV(-20), None),
      kw_ITUF699(IntV(80000), IntV(1), None, None),
      kw_ITUF699(IntV(80000), FltV(100), None, None),
      kw_ITUF699(IntV(500), IntV(6), None, None),
      kw_ITUF699(IntV(500), IntV(6), IntV(-20), None),
      kw_ITUF699(IntV(500), FltV(100), None, None) }

Configs_ITUF1245 ==
    { kw_ITUF1245(IntV(26875), StrV("Rec. 2"), IntV(48), None),
      kw_ITUF1245(IntV(26875), StrV("Rec. 2"), IntV(30), None),
      kw_ITUF1245(IntV(75000), StrV("Rec. 2"), IntV(48), FltV(1800)),
      kw_ITUF1245(IntV(75000), StrV("Rec. 2"), IntV(30), None),
      kw_ITUF1245(IntV(26875), StrV("Rec. 2"), IntV(-20), FltV(1800)),
      kw_ITUF1245(IntV(26875), StrV("Rec. 3"), None, FltV(1800)),
      kw_ITUF1245(IntV(26875), StrV("Rec. 3"), IntV(30), None),
      kw_ITUF1245(IntV(75000), StrV("Rec. 3"), IntV(30), None),
      kw_ITUF1245(IntV(26875), StrV("Rec. 3"), IntV(-20), FltV(1800)) }

Configs_ITUF1336lg ==
    { kw_ITUF1336lg(IntV(2000), IntV(10)),
      kw_ITUF1336lg(IntV(2000), IntV(3)),
      kw_ITUF1336lg(IntV(1000), FltV(-5500)),
      kw_ITUF1336lg(IntV(2000), IntV(-20)) }

Configs_ITUS465 ==
    { kw_ITUS(None, None, IntV(100)),
      kw_ITUS(None, FltV(1850), IntV(40)),
      kw_ITUS(IntV(2000), None, IntV(30)),
      kw_ITUS(IntV(2000), FltV(300), None) }

Configs_ITUS580 ==
    { kw_ITUS(None, None, IntV(100)),
      kw_ITUS(None, FltV(1850), IntV(50)),
      kw_ITUS(IntV(77500), FltV(1850), None) }

Configs_ITUF1336o ==
    { kw_ITUF1336o(IntV(806), StrV("peak"), StrV("none"), None, None, None),
      kw_ITUF1336o(IntV(806), StrV("average"), StrV("none"), None, None, None),
      kw_ITUF1336o(IntV(3500), StrV("peak"), StrV("none"), None, None, None),
      kw_ITUF1336o(IntV(806), StrV("peak"), StrV("electrical"), IntV(3),
                   IntV(8), FltV(500)),
      kw_ITUF1336o(IntV(806), StrV("average"), StrV("electrical"), IntV(3),
                   None, None) }

Configs_ITUF1336s ==
    { kw_ITUF1336s(IntV(806), IntV(65), StrV("peak"), StrV("none"), None,
                   None, None),
      kw_ITUF1336s(IntV(806), IntV(65), StrV("average"), StrV("none"), None,
                   None, None),
      kw_ITUF1336s(IntV(806), IntV(65), StrV("average"), StrV("none"),
                   IntV(3), IntV(17), FltV(500)),
      kw_ITUF1336s(IntV(806), IntV(130), StrV("peak"), StrV("none"), None,
                   IntV(10), None),
      kw_ITUF1336s(IntV(806), IntV(65), StrV("peak"), StrV("none"), None,
                   FltV(22500), None) }

Configs(m) ==
    CASE m = "ITUF699" -> Configs_ITUF699
      [] m = "ITUF1245" -> Configs_ITUF1245
      [] m = "ITUF1336lg" -> Configs_ITUF1336lg
      [] m = "ITUF1336o" -> Configs_ITUF1336o
      [] m = "ITUF1336s" -> Configs_ITUF1336s
      [] m = "ITUS465" -> Configs_ITUS465
      [] m = "ITUS580" -> Configs_ITUS580

-----------------------------------------------------------------------------
(* Angle normalisers.  Angles are in thousandths of a degree.              *)

\* (angle % 360 + 360) % 360, then mirrored into [0, 180]
normalize_off_axis_angle(a) ==
    LET w == ((a % 360000) + 360000) % 360000
    IN  IF w > 180000 THEN 360000 - w ELSE w

\* angle % 360 with the half turn itself moved down: [-180, 180)
normalize_azimuth_half_open(a) ==
    IF (a % 360000) >= 180000 THEN (a % 360000) - 360000 ELSE a % 360000

\* angle % 360, then angles above 180 moved down a turn
normalize_azimuth(a) ==
    LET w == a % 360000
    IN  IF w > 180000 THEN w - 360000 ELSE w

\* the reflect-at-the-poles loop
RECURSIVE normalize_elevation(_)
normalize_elevation(a) ==
    IF a > 90000 THEN normalize_elevation(180000 - a)
    ELSE IF a < -90000 THEN normalize_elevation(-180000 - a)
    ELSE a

-----------------------------------------------------------------------------
(* Gain evaluators.  A result is a number (kind "num", v in thousandths of *)
(* a dB), the undefined marker None (kind "undefined") or a raised error.  *)

NumRes(v) == [kind |-> "num", v |-> v, err |-> ""]
UndefRes == [kind |-> "undefined", v |-> 0, err |-> ""]
ErrRes(e) == [kind |-> "error", v |-> 0, err |-> e]
NoGain == [kind |-> "", v |-> 0, err |-> ""]

\* self.params[key] raises KeyError for one of these keys
Missing(p, keys) == \E k \in keys : k \notin DOMAIN p

\* g_1 = 2 + 15 * math.log10(d_to_l), the gain of the first side lobe
g_1(p) == 2000 + 15 * Log10(p["d_to_l"].n)

\* g_max - g_1, the number under the square root of phi_m
discriminant(p) == p["max_gain_dbi"].n - g_1(p)

\* phi_m = 20 * 1 / d_to_l * (g_max - g_1) ** 0.5, for g_max >= g_1
phi_m(p) == Mul(Div(20000, p["d_to_l"].n), Sqrt(discriminant(p)))

\* g_max - 2.5 * 10 ** (-3) * (d_to_l * phi) ** 2
main_lobe(p, x) == p["max_gain_dbi"].n - MulDiv(Mul(x, x), 25, 10000)

\* the chain with every region open at both ends: an angle that is a
\* boundary is in no region
regions_ITUF699_open(p, phi, m, r, level, far, floor) ==
    IF 0 < phi /\ phi < m
    THEN NumRes(main_lobe(p, Mul(p["d_to_l"].n, phi)))
    ELSE IF m < phi /\ phi < r THEN NumRes(g_1(p))
    ELSE IF r < phi /\ phi < far THEN NumRes(level - 25 * Log10(phi))
    ELSE IF far < phi /\ phi <= 180000 THEN NumRes(floor)
    ELSE UndefRes

\* the if / elif chain shared by __gain_21, __gain_22 and __gain_23: the
\* main lobe below m, g_1 up to r, the side-lobe slope (level - 25 *
\* log10(phi)) up to far and the floor from far to 180; None when no test
\* holds
regions_ITUF699(p, phi, m, r, level, far, floor) ==
    IF 0 < phi /\ phi < m
    THEN NumRes(main_lobe(p, Mul(p["d_to_l"].n, phi)))
    ELSE IF m <= phi /\ phi < r THEN NumRes(g_1(p))
    ELSE IF r <= phi /\ phi < far THEN NumRes(level - 25 * Log10(phi))
    ELSE IF far <= phi /\ phi <= 180000 THEN NumRes(floor)
    ELSE UndefRes

\* ITUF699.__gain_21 (d_to_l > 100): a complex phi_m is raised as ValueError
gain_21(p, phi) ==
    IF phi = 0 THEN NumRes(p["max_gain_dbi"].n)
    ELSE IF discriminant(p) < 0 THEN ErrRes("ValueError")
    ELSE IF p["freq_band"].s = "1-70 GHz"
    THEN regions_ITUF699(p, phi, phi_m(p), Power(15850, p["d_to_l"].n, -600),
                         32000, 48000, -10000)
    ELSE IF p["freq_band"].s = "70-86 GHz"
    THEN regions_ITUF699(p, phi, phi_m(p), Power(15850, p["d_to_l"].n, -600),
                         32000, 120000, -20000)
    ELSE UndefRes

\* ITUF699.__gain_22 (d_to_l <= 100): a complex phi_m is not looked for, and
\* the first comparison of phi with it raises TypeError
gain_22(p, phi) ==
    IF phi = 0 THEN NumRes(p["max_gain_dbi"].n)
    ELSE IF discriminant(p) < 0 THEN ErrRes("TypeError")
    ELSE IF p["freq_band"].s = "1-70 GHz"
    THEN regions_ITUF699(p, phi, phi_m(p), Div(100000, p["d_to_l"].n),
                         52000 - 10 * Log10(p["d_to_l"].n), 48000,
                         10000 - 10 * Log10(p["d_to_l"].n))
    ELSE IF p["freq_band"].s = "70-86 GHz"
    THEN regions_ITUF699(p, phi, phi_m(p), Div(100000, p["d_to_l"].n),
                         52000 - 10 * Log10(p["d_to_l"].n), 120000,
                         -10 * Log10(p["d_to_l"].n))
    ELSE UndefRes

\* ITUF699.__gain_23 (0.1-1 GHz), phi_s = 144.5 * d_to_l ** (-0.2)
gain_23(p, phi) ==
    IF phi = 0 THEN NumRes(p["max_gain_dbi"].n)
    ELSE IF discriminant(p) < 0 THEN ErrRes("TypeError")
    ELSE regions_ITUF699(p, phi, phi_m(p), Div(100000, p["d_to_l"].n),
                         52000 - 10 * Log10(p["d_to_l"].n),
                         Power(144500, p["d_to_l"].n, -200),
                         -2000 - 5 * Log10(p["d_to_l"].n))

gain_ITUF699(p, off_axis_angle) ==
    LET phi == normalize_off_axis_angle(off_axis_angle)
    IN  IF Missing(p, {"freq_band", "d_to_l", "max_gain_dbi"})
        THEN ErrRes("KeyError")
        ELSE IF p["freq_band"].s = "0.1-1 GHz"
        THEN IF p["d_to_l"].n < 630 THEN ErrRes("ValueError")
             ELSE gain_23(p, phi)
        ELSE IF p["d_to_l"].n > 100000 THEN gain_21(p, phi)
        ELSE gain_22(p, phi)

\* math.sin of an angle of x thousandths of a radian, 0 <= x <= pi / 2, in
\* thousandths: x - x^3/6 + x^5/120 - x^7/5040, the powers of x being given
SinTerms(x, x3, x5, x7) ==
    x - Mul(x3, 167) + MulDiv(x5, 1, 120) - MulDiv(x7, 1, 5040)
SinFifth(x, x2, x3, x5) == SinTerms(x, x3, x5, Mul(x5, x2))
SinThird(x, x2, x3) == SinFifth(x, x2, x3, Mul(x3, x2))
SinSeries(x, x2) == SinThird(x, x2, Mul(x, x2))
SinRadians(x) == SinSeries(x, Mul(x, x))

\* math.sin(math.radians(d)) for d >= 0 in thousandths of a degree
SinQuadrant(d) == SinRadians(MulDiv(d, 31416, 1800000))
SinHalfTurn(d) == SinQuadrant(IF d > 90000 THEN 180000 - d ELSE d)
SinTurn(r) == (IF r > 180000 THEN -1 ELSE 1)
              * SinHalfTurn(IF r > 180000 THEN r - 180000 ELSE r)
SinDeg(d) == SinTurn(d % 360000)

\* the three-branch chain of __gain_rec2 for d_to_l <= 100
regions_rec2_small(p, phi, m, level, far, floor) ==
    IF 0 < phi /\ phi < m
    THEN NumRes(main_lobe(p, Mul(p["d_to_l"].n, phi)))
    ELSE IF m <= phi /\ phi < far THEN NumRes(level - 25 * Log10(phi))
    ELSE IF far <= phi /\ phi <= 180000 THEN NumRes(floor)
    ELSE UndefRes

\* the branches of __gain_rec2 by d_to_l and band; m = phi_m and
\* r = phi_r = 12.02 * d_to_l ** (-0.6)
branches_rec2(p, phi, m, r) ==
    IF p["d_to_l"].n > 100000 /\ p["freq_band"].s = "1-70 GHz"
    THEN regions_ITUF699(p, phi, m, Max(m, r), 29000, 48000, -13000)
    ELSE IF p["d_to_l"].n > 100000 /\ p["freq_band"].s = "70-86 GHz"
    THEN regions_ITUF699(p, phi, m, Max(m, r), 29000, 120000, -23000)
    ELSE IF p["d_to_l"].n <= 100000 /\ p["freq_band"].s = "1-70 GHz"
    THEN regions_rec2_small(p, phi, m, 39000 - 5 * Log10(p["d_to_l"].n),
                            48000, -3000 - 5 * Log10(p["d_to_l"].n))
    ELSE IF p["d_to_l"].n <= 100000 /\ p["freq_band"].s = "70-86 GHz"
    THEN regions_rec2_small(p, phi, m, 39000 - 5 * Log10(p["d_to_l"].n),
                            120000, -13000 - 5 * Log10(p["d_to_l"].n))
    ELSE UndefRes

\* ITUF1245.__gain_rec2: math.sqrt of a negative g_max - g_1 raises
\* ValueError (math domain error)
gain_rec2(p, phi) ==
    IF phi = 0 THEN NumRes(p["max_gain_dbi"].n)
    ELSE IF discriminant(p) < 0 THEN ErrRes("ValueError")
    ELSE branches_rec2(p, phi, phi_m(p), Power(12020, p["d_to_l"].n, -600))

\* g_a of __gain_rec3; beyond d_to_l * phi = 1000 the square is not formed
\* and g_a stands 2500 dB below g_max, under every g_b
g_a(p, x) ==
    IF x > 1000000 THEN p["max_gain_dbi"].n - 2500000 ELSE main_lobe(p, x)

\* f_phi = 10 * log10(0.9 * sin(radians(3 * pi * phi / (2 * phi_r))) ** 2 + 0.1)
f_of_sin(sine) == 10 * Log10(Mul(900, Mul(sine, sine)) + 100)
f_phi(phi, r) == f_of_sin(SinDeg(Div(Mul(9425, phi), 2 * r)))

\* the chain of __gain_rec3 for one d_to_l class and band
regions_rec3(p, phi, r, f, level, far, floor) ==
    IF 0 <= phi /\ phi < r
    THEN NumRes(Max(g_a(p, Mul(p["d_to_l"].n, phi)), g_1(p) + f))
    ELSE IF r <= phi /\ phi < far THEN NumRes(level - 25 * Log10(phi) + f)
    ELSE IF far <= phi /\ phi <= 180000 THEN NumRes(floor + f)
    ELSE UndefRes

\* the far angle and the floors of __gain_rec3 by band
bands_rec3(p, phi, r, level, floor_1_70, floor_70_86) ==
    IF p["freq_band"].s = "1-70 GHz"
    THEN regions_rec3(p, phi, r, f_phi(phi, r), level, 48000, floor_1_70)
    ELSE regions_rec3(p, phi, r, f_phi(phi, r), level, 120000, floor_70_86)

\* ITUF1245.__gain_rec3: phi_r = 15.85 * d_to_l ** (-0.6) for d_to_l > 100
\* and 39.8 * d_to_l ** (-0.8) otherwise
gain_rec3(p, phi) ==
    IF phi = 0 THEN NumRes(p["max_gain_dbi"].n)
    ELSE IF p["d_to_l"].n > 100000
    THEN bands_rec3(p, phi, Power(15850, p["d_to_l"].n, -600),
                    32000, -10000, -20000)
    ELSE bands_rec3(p, phi, Power(39800, p["d_to_l"].n, -800),
                    42000 - 5 * Log10(p["d_to_l"].n),
                    -5 * Log10(p["d_to_l"].n),
                    -10000 - 5 * Log10(p["d_to_l"].n))

gain_ITUF1245(p, off_axis_angle) ==
    LET phi == normalize_off_axis_angle(off_axis_angle)
    IN  IF Missing(p, {"calc_opt", "max_gain_dbi"}) THEN ErrRes("KeyError")
        ELSE IF p["calc_opt"].s = "Rec. 2" THEN gain_rec2(p, phi)
        ELSE gain_rec3(p, phi)

\* the four regions of ITUF1336lg.gain, for theta in [0, 180]
regions_ITUF1336lg(theta, g_0, phi_3, phi_1, phi_2) ==
    IF 0 <= theta /\ theta < Mul(1080, phi_3)
    THEN NumRes(g_0 - Mul(12000, Mul(Div(theta, phi_3), Div(theta, phi_3))))
    ELSE IF Mul(1080, phi_3) <= theta /\ theta < phi_1
    THEN NumRes(g_0 - 14000)
    ELSE IF phi_1 <= theta /\ theta < phi_2
    THEN NumRes(g_0 - 14000 - 32 * Log10(Div(theta, phi_1)))
    ELSE IF phi_2 <= theta /\ theta <= 180000
    THEN NumRes(-8000)
    ELSE UndefRes

\* phi_1 = 1.9 * phi_3 and phi_2 = phi_1 * 10 ** ((g_0 - 6) / 32)
breaks_ITUF1336lg(theta, g_0, phi_3) ==
    regions_ITUF1336lg(theta, g_0, phi_3, Mul(1900, phi_3),
                       Mul(Mul(1900, phi_3), Pow10((g_0 - 6000) \div 32)))

\* phi_3 = math.sqrt(27000 * 10 ** (-0.1 * g_0)), from the power in
\* millionths; beyond 1900 square degrees the root is taken to the degree
phi_3_ITUF1336lg(power) ==
    IF power < 70000000 THEN Sqrt(MulDivNat(power, 27000, 1000))
    ELSE 1000 * ISqrt(MulDivNat(power, 27000, 1000000), 0, 46341)

gain_ITUF1336lg(p, off_axis_angle) ==
    IF Missing(p, {"max_gain_dbi"}) THEN ErrRes("KeyError")
    ELSE breaks_ITUF1336lg(
            normalize_off_axis_angle(off_axis_angle), p["max_gain_dbi"].n,
            phi_3_ITUF1336lg(pow_minus_tenth(p["max_gain_dbi"].n)))

\* The doubles of phi_min.  __normalize_off_axis_angle computes
\* (angle % 360 + 360) % 360 in double precision: below 360 the first % and
\* from 360 up the second are exact, and the sum between them is rounded to
\* the doubles of [256, 512), which lie 2^-44 apart, to the nearest and on a
\* tie to the even one.  An angle x of [1, 2) is m * 2^-52 for its mantissa
\* m, so that the sum drops the last 8 bits of m.  The operators below
\* compute the last 9 bits of the mantissa of phi_min in integers.

\* 2^n modulo m
RECURSIVE PowerOfTwoMod(_, _)
PowerOfTwoMod(n, m) == IF n = 0 THEN 1 % m ELSE (2 * PowerOfTwoMod(n - 1, m)) % m

\* num * 2^e / d rounded to an integer, modulo span: the last bits of the
\* mantissa of the double num / d
quotient_bits(num, e, d, span) ==
    LET a == (num * PowerOfTwoMod(e, span * d)) % (span * d)
        q == a \div d
        r == a % d
    IN  (q + (IF 2 * r > d \/ (2 * r = d /\ q % 2 = 1) THEN 1 ELSE 0)) % span

\* prod / 2^s rounded to an integer, modulo span: the last bits of the
\* mantissa of a product of doubles
product_bits(prod, s, span) ==
    LET q == prod \div (2 ^ s)
        r == prod % (2 ^ s)
        half == 2 ^ (s - 1)
    IN  (q + (IF r > half \/ (r = half /\ q % 2 = 1) THEN 1 ELSE 0)) % span

\* the sign of normalised - x for the x of [1, 2) whose mantissa ends in
\* the 9 bits m
wrap_error(m) ==
    LET low == m % 256
    IN  IF low = 0 THEN 0
        ELSE IF low < 128 \/ (low = 128 /\ (m \div 256) % 2 = 0) THEN -1
        ELSE 1

\* 100 * (1 / d_to_l) of ITUS465.__phi_min for a whole d_to_l of 51..99:
\* 1 / d_to_l has the mantissa 2^58 / d_to_l below 64 and 2^59 / d_to_l
\* from 64 on
bits_ITUS465(d) ==
    LET e == IF d < 64 THEN 58 ELSE 59
    IN  product_bits(100 * quotient_bits(1, e, d, 65536), e - 52, 512)

\* 100 * 1 / d_to_l of ITUS580.__phi_min for a whole d_to_l of 51..99
bits_ITUS580(d) == quotient_bits(100, 52, d, 512)

\* the sign of __normalize_off_axis_angle(phi_min) - phi_min where phi_min
\* is 1, 2 or 2.5 (no error) or comes of a whole d_to_l of 51..99
phi_min_wrap(m, p) ==
    LET d_to_l == p["d_to_l"].n
    IN  CASE d_to_l % 1000 = 0 /\ 50000 < d_to_l /\ d_to_l < 100000
             -> wrap_error(IF m = "ITUS465"
                           THEN bits_ITUS465(d_to_l \div 1000)
                           ELSE bits_ITUS580(d_to_l \div 1000))
          [] d_to_l >= 100000 \/ d_to_l = 50000 -> 0
          [] m = "ITUS465" /\ d_to_l < 33300 -> 0

\* ITUS465.__phi_min
phi_min_ITUS465(p) ==
    LET d_to_l == p["d_to_l"].n
    IN  IF d_to_l >= 50000 THEN Max(1000, Div(100000, d_to_l))
        ELSE IF 33300 <= d_to_l
        THEN Max(2000, Mul(114000, Pow(d_to_l, -1090)))
        ELSE 2500

\* ITUS465.gain with the 48 degrees of its slope closed: phi <= 48
gain_ITUS465_closed(p, off_axis_angle) ==
    LET phi == normalize_off_axis_angle(off_axis_angle)
    IN  IF Missing(p, {"d_to_l"}) THEN ErrRes("KeyError")
        ELSE IF phi < phi_min_ITUS465(p) THEN UndefRes
        ELSE IF phi <= 48000 THEN NumRes(32000 - 25 * Log10(phi))
        ELSE NumRes(-10000)

gain_ITUS465(p, off_axis_angle) ==
    LET phi == normalize_off_axis_angle(off_axis_angle)
    IN  IF Missing(p, {"d_to_l"}) THEN ErrRes("KeyError")
        ELSE IF phi < phi_min_ITUS465(p) THEN UndefRes
        ELSE IF phi < 48000 THEN NumRes(32000 - 25 * Log10(phi))
        ELSE NumRes(-10000)

\* ITUS580.__phi_min
phi_min_ITUS580(p) == Max(1000, Div(100000, p["d_to_l"].n))

\* the delegate configured while it holds no params, and kept afterwards
delegate_set_once(old, p) ==
    IF old = EmptyDict
    THEN set_params("ITUS465", old,
                    [oper_freq_mhz |-> None, diameter_m |-> None,
                     d_to_l |-> p["d_to_l"]])
    ELSE [params |-> old, ended |-> Ended("ok", "", NoError)]

\* the delegate left as it is
delegate_kept(old, p) == [params |-> old, ended |-> Ended("ok", "", NoError)]

\* self.s465_antenna.set_params(d_to_l=self.params['d_to_l'])
delegate_set_params(old, p) ==
    set_params("ITUS465", old,
               [oper_freq_mhz |-> None, diameter_m |-> None,
                d_to_l |-> p["d_to_l"]])

\* the regions without the band from 20 to 26.3 degrees: past 20 degrees
\* the delegate's gain as it is
regions_ITUS580_handover(p, phi, s465_gain) ==
    IF phi < phi_min_ITUS580(p) THEN UndefRes
    ELSE IF phi <= 20000 THEN NumRes(29000 - 25 * Log10(phi))
    ELSE s465_gain

\* the regions of ITUS580.gain, s465_gain being the delegate's gain at phi
regions_ITUS580(p, phi, s465_gain) ==
    IF phi < phi_min_ITUS580(p) THEN UndefRes
    ELSE IF phi <= 20000 THEN NumRes(29000 - 25 * Log10(phi))
    ELSE IF phi <= 26300
    THEN IF s465_gain.kind # "num" THEN ErrRes("TypeError")
         ELSE NumRes(Min(-3500, s465_gain.v))
    ELSE s465_gain

\* ITUS580.gain once the delegate's set_params call has ended as set
gain_delegated(p, phi, set) ==
    IF set.ended.status # "ok"
    THEN [res |-> ErrRes(set.ended.err.kind), delegate |-> set.params]
    ELSE [res |-> regions_ITUS580(p, phi, gain_ITUS465(set.params, phi)),
          delegate |-> set.params]

\* ITUS580.gain: [res, delegate]: the result and the delegate's params
gain_ITUS580(p, dlg, off_axis_angle) ==
    IF Missing(p, {"d_to_l"})
    THEN [res |-> ErrRes("KeyError"), delegate |-> dlg]
    ELSE gain_delegated(p, normalize_off_axis_angle(off_axis_angle),
                        delegate_set_params(dlg, p))

\* self.gain(off_axis_angle=phi_min) of ITUS465._update_specs: the angle is
\* the double phi_min itself, and `phi < phi_min` holds of it when the
\* normaliser returns it short
peak_ITUS465(p) ==
    IF phi_min_wrap("ITUS465", p) < 0 THEN UndefRes
    ELSE gain_ITUS465(p, phi_min_ITUS465(p))

\* self.gain(off_axis_angle=phi_min) of ITUS580._update_specs: [res,
\* delegate], the delegate's set_params call coming before the comparison
peak_ITUS580(p, dlg) ==
    IF phi_min_wrap("ITUS580", p) < 0
       /\ delegate_set_params(dlg, p).ended.status = "ok"
    THEN [res |-> UndefRes, delegate |-> delegate_set_params(dlg, p).params]
    ELSE gain_ITUS580(p, dlg, phi_min_ITUS580(p))

\* ITUF1336o.__normalize_tilted_angles
normalize_tilted_angles_ITUF1336o(p, theta_h) ==
    LET beta == p["tilt_angle_deg"].n
        theta_h_beta == theta_h + beta
    IN  IF p["tilt_type"].s = "none" \/ beta = 0 THEN theta_h
        ELSE IF theta_h_beta >= 0
        THEN MulDiv(90 * theta_h_beta, 1000, 90000 + beta)
        ELSE MulDiv(90 * theta_h_beta, 1000, 90000 - beta)

\* 1 / 1.2 * math.log10(k + 1)
log_k_term(p) == MulDiv(Log10(p["k"].n + 1000), 1000, 1200)

\* ITUF1336o.__gain_peak
gain_peak_ITUF1336o(p, theta) ==
    LET g_0 == p["max_gain_dbi"].n
        k == p["k"].n
        th3 == p["beamwidth_el_deg"].n
        theta_4 == Mul(th3, Sqrt(1000 - log_k_term(p)))
        theta_abs == Abs(theta)
        ratio == Div(theta, th3)
    IN  IF theta_abs < theta_4
        THEN NumRes(g_0 - Mul(12000, Mul(ratio, ratio)))
        ELSE IF theta_4 <= theta_abs /\ theta_abs < th3
        THEN NumRes(g_0 - 12000 + 10 * Log10(k + 1000))
        ELSE IF th3 <= theta_abs /\ theta_abs <= 90000
        THEN NumRes(g_0 - 12000
                    + 10 * Log10(Pow(Div(theta_abs, th3), -1500) + k))
        ELSE UndefRes

\* ITUF1336o.__gain_average
gain_average_ITUF1336o(p, theta) ==
    LET g_0 == p["max_gain_dbi"].n
        k == p["k"].n
        th3 == p["beamwidth_el_deg"].n
        theta_5 == Mul(th3, Sqrt(1250 + log_k_term(p)))
        theta_abs == Abs(theta)
        ratio == Div(theta, th3)
    IN  IF theta_abs < th3
        THEN NumRes(g_0 - Mul(12000, Mul(ratio, ratio)))
        ELSE IF th3 <= theta_abs /\ theta_abs < theta_5
        THEN NumRes(g_0 - 15000 + 10 * Log10(k + 1000))
        ELSE IF theta_5 <= theta_abs /\ theta_abs <= 90000
        THEN NumRes(g_0 - 15000
                    + 10 * Log10(Pow(Div(theta_abs, th3), -1500) + k))
        ELSE UndefRes

gain_ITUF1336o(p, elevation) ==
    LET theta_h == normalize_elevation(elevation)
        theta == normalize_tilted_angles_ITUF1336o(p, theta_h)
    IN  IF Missing(p, {"tilt_type", "tilt_angle_deg", "pattern_type",
                       "max_gain_dbi", "k", "beamwidth_el_deg"})
        THEN ErrRes("KeyError")
        ELSE IF p["pattern_type"].s = "peak"
        THEN gain_peak_ITUF1336o(p, theta)
        ELSE gain_average_ITUF1336o(p, theta)

-----------------------------------------------------------------------------
(* The sectoral model in 0.4-6 GHz.  The peak and the average pattern are  *)
(* the same code up to their constants; avg selects the average one.       *)

\* ITUF1336s.__normalize_tilted_angles: the untilted return
\* math.cos(math.radians(d))
CosDeg(d) == SinDeg(d + 90000)

\* math.degrees(math.asin(x)) for SinDeg(lo) <= x <= SinDeg(hi), by halving
\* the interval: the angle whose sine comes nearest, to a thousandth of a
\* degree
RECURSIVE ArcSinBetween(_, _, _)
ArcSinBetween(x, lo, hi) ==
    IF hi - lo <= 1
    THEN IF x - SinDeg(lo) <= SinDeg(hi) - x THEN lo ELSE hi
    ELSE IF SinDeg((lo + hi) \div 2) <= x
    THEN ArcSinBetween(x, (lo + hi) \div 2, hi)
    ELSE ArcSinBetween(x, lo, (lo + hi) \div 2)

\* max(-1.0, min(1.0, x))
clamp(x) == Max(-1000, Min(1000, x))

\* math.degrees(math.asin(x)) and math.degrees(math.acos(x)), -1 <= x <= 1
ArcSinDeg(x) == ArcSinBetween(x, -90000, 90000)
ArcCosDeg(x) == 90000 - ArcSinDeg(x)

\* formula (1e): 90 * theta_h_beta / (90 + beta), or (90 - beta) below 0
rescaled(theta_h, beta) ==
    IF theta_h + beta >= 0
    THEN MulDiv(90 * (theta_h + beta), 1000, 90000 + beta)
    ELSE MulDiv(90 * (theta_h + beta), 1000, 90000 - beta)

\* formula (3b): theta of the mechanical tilt
theta_3b(phi_h, theta_h, beta) ==
    ArcSinDeg(clamp(Mul(SinDeg(theta_h), CosDeg(beta))
                    + Mul(Mul(CosDeg(theta_h), CosDeg(phi_h)), SinDeg(beta))))

\* formula (3c): phi of the mechanical tilt, cos_theta being the cosine of
\* the theta of (3b); away from the poles, where cos_theta is not 0
phi_3c(phi_h, theta_h, beta, cos_theta) ==
    CASE cos_theta # 0
         -> ArcCosDeg(clamp(Div(-Mul(SinDeg(theta_h), SinDeg(beta))
                                + Mul(Mul(CosDeg(theta_h), CosDeg(phi_h)),
                                      CosDeg(beta)),
                                cos_theta)))

\* __normalize_tilted_angles past its first return, theta being the theta
\* of (3b): phi of the mechanical tilt, and theta computed again for the
\* electrical tilt
tilted_from(p, phi_h, theta_h, theta) ==
    [phi |-> phi_3c(phi_h, theta_h, p["tilt_angle_deg"].n, CosDeg(theta)),
     theta |-> IF p["tilt_type"].s = "electrical"
               THEN rescaled(theta_h, p["tilt_angle_deg"].n)
               ELSE theta]
tilted_ITUF1336s(p, phi_h, theta_h) ==
    tilted_from(p, phi_h, theta_h,
                theta_3b(phi_h, theta_h, p["tilt_angle_deg"].n))

\* the first return taken as in ITUF1336o: for the tilt type 'none' or the
\* tilt angle 0
normalize_tilted_angles_either(p, phi_h, theta_h) ==
    IF p["tilt_type"].s = "none" \/ p["tilt_angle_deg"].n = 0
    THEN [phi |-> phi_h, theta |-> theta_h]
    ELSE tilted_ITUF1336s(p, phi_h, theta_h)

\* ITUF1336s.__normalize_tilted_angles
normalize_tilted_angles_ITUF1336s(p, phi_h, theta_h) ==
    IF p["tilt_type"].s = "none" /\ p["tilt_angle_deg"].n = 0
    THEN [phi |-> phi_h, theta |-> theta_h]
    ELSE tilted_ITUF1336s(p, phi_h, theta_h)

\* k_p for the peak pattern, k_a for the average one
k_side(p, avg) == IF avg THEN p["k_a"].n ELSE p["k_p"].n

\* __g_180_peak and __g_180_average
g_180(p, avg) ==
    (IF avg THEN -15000 ELSE -12000)
    + 10 * Log10(1000 + 8 * k_side(p, avg))
    - 15 * Log10(Div(180000, p["beamwidth_el_deg"].n))

\* __g_hr_peak and __g_hr_average
g_hr(p, avg, x_h) ==
    Max(IF x_h <= 500 THEN -Mul(12000, Mul(x_h, x_h))
        ELSE -Mul(12000, Pow(x_h, 2000 - p["k_h"].n))
             - 3 * (1000 - Pow(500, -p["k_h"].n)),
        g_180(p, avg))

\* block_3 of __c_peak and __c_average: math.log10(22.5 / theta_3)
block_3(p) == Log10(Div(22500, p["beamwidth_el_deg"].n))

\* __c_peak and __c_average, for block_3 # 0
c_incline(p, avg) ==
    Div(Log10(MulDiv(Mul(Pow(Div(180000, p["beamwidth_el_deg"].n), 1500),
                         125 + p["k_v"].n),
                     1000, 1000 + 8 * k_side(p, avg))),
        block_3(p))

\* x_k of __g_vr_peak and __g_vr_average
x_k(p, avg) == IF avg THEN Sqrt(1330 - Mul(330, p["k_v"].n))
               ELSE Sqrt(1000 - Mul(360, p["k_v"].n))

\* the regions of __g_vr_peak and __g_vr_average, c being the incline factor
regions_g_vr(p, avg, x_v, c) ==
    IF x_v < x_k(p, avg) THEN -Mul(12000, Mul(x_v, x_v))
    ELSE IF x_v < 4000
    THEN (IF avg THEN -15000 ELSE -12000)
         + 10 * Log10(Pow(x_v, -1500) + p["k_v"].n)
    ELSE IF x_v < Div(90000, p["beamwidth_el_deg"].n)
    THEN -(12000 - Mul(c, Log10(4000)) - 10 * Log10(125 + p["k_v"].n))
         - (IF avg THEN 3000 ELSE 0) - Mul(c, Log10(x_v))
    ELSE g_180(p, avg)

\* __g_vr_peak and __g_vr_average, for block_3 # 0
g_vr(p, avg, x_v) == regions_g_vr(p, avg, x_v, c_incline(p, avg))

\* the sum g_0 + g_hr(x_h) + r * g_vr(x_v), from g_h = g_hr(x_h),
\* g_h0 = g_hr(0) and far = g_hr(180 / phi_3).  r is computed first: a zero
\* denominator raises there, and a zero block_3 raises in the incline
\* factor that g_vr needs.
compressed(p, avg, x_v, g_h, g_h0, far) ==
    IF g_h0 - far = 0 THEN ErrRes("ZeroDivisionError")
    ELSE IF block_3(p) = 0 THEN ErrRes("ZeroDivisionError")
    ELSE NumRes(p["max_gain_dbi"].n + g_h
                + Mul(Div(g_h - far, g_h0 - far), g_vr(p, avg, x_v)))

\* __gain_peak_04_6ghz and __gain_average_04_6ghz
gain_04_6ghz(p, avg, phi, theta) ==
    compressed(p, avg, Div(Abs(theta), p["beamwidth_el_deg"].n),
               g_hr(p, avg, Div(Abs(phi), p["beamwidth_az_deg"].n)),
               g_hr(p, avg, 0),
               g_hr(p, avg, Div(180000, p["beamwidth_az_deg"].n)))

\* ITUF1336s.gain in the 0.4-6 GHz range
gain_ITUF1336s(p, azimuth, elevation) ==
    LET phi_h == normalize_azimuth(azimuth)
        theta_h == normalize_elevation(elevation)
        angles == normalize_tilted_angles_ITUF1336s(p, phi_h, theta_h)
    IN  IF Missing(p, {"tilt_type", "tilt_angle_deg", "freq_range",
                       "pattern_type", "beamwidth_az_deg",
                       "beamwidth_el_deg", "max_gain_dbi", "k_h", "k_v",
                       "k_p", "k_a"})
        THEN ErrRes("KeyError")
        ELSE CASE p["freq_range"].s = "0.4-6 GHz"
             -> gain_04_6ghz(p, p["pattern_type"].s = "average",
                             angles.phi, angles.theta)

\* gain(...) of the model class m: [res, delegate]
gain(m, p, dlg, azimuth, elevation) ==
    CASE m = "ITUF699" -> [res |-> gain_ITUF699(p, azimuth), delegate |-> dlg]
      [] m = "ITUF1245" -> [res |-> gain_ITUF1245(p, azimuth), delegate |-> dlg]
      [] m = "ITUF1336lg"
         -> [res |-> gain_ITUF1336lg(p, azimuth), delegate |-> dlg]
      [] m = "ITUF1336o"
         -> [res |-> gain_ITUF1336o(p, elevation), delegate |-> dlg]
      [] m = "ITUF1336s"
         -> [res |-> gain_ITUF1336s(p, azimuth, elevation), delegate |-> dlg]
      [] m = "ITUS465" -> [res |-> gain_ITUS465(p, azimuth), delegate |-> dlg]
      [] m = "ITUS580" -> gain_ITUS580(p, dlg, azimuth)

-----------------------------------------------------------------------------
(* The specs record and its builder _update_specs.  self.specs is a dict:  *)
(* its scalar fields hold values, the comment is the text with the values  *)
(* formatted into it (<<>> for None) and the two pattern datapoint dicts   *)
(* hold the list of the angles and the list of the losses.                 *)

\* the last angle of range(0, 361), and the angle the exporter drops from
LastAngle == 360
Cutoff == 360

\* round(x, 2) of a float in thousandths: to the nearest hundredth, a tie
\* to the even one
Round2(x) ==
    10 * (IF x % 10 > 5 \/ (x % 10 = 5 /\ (x \div 10) % 2 = 1)
          THEN x \div 10 + 1 ELSE x \div 10)

\* round(value, 2): an int stays the int it is
round_2(v) == IF v.t = "int" THEN v ELSE FltV(Round2(v.n))

NA == StrV("n/a")

\* range(0, 360), which stops short of the last angle
angles_half_open == [i \in 1..LastAngle |-> i - 1]

\* angles = [i for i in range(0, 361)]
angles == [i \in 1..(LastAngle + 1) |-> i - 1]

\* self.specs as BaseAntenna.__init__ leaves it
NoSpecs ==
    [k \in {"name", "make", "frequency", "h_width", "v_width",
            "front_to_back", "gain", "tilt", "polarization", "comment",
            "h_pattern_datapoint", "v_pattern_datapoint"}
     |-> CASE k = "comment" -> <<>>
           [] k = "h_pattern_datapoint" -> [phi |-> <<>>, loss |-> <<>>]
           [] k = "v_pattern_datapoint" -> [theta |-> <<>>, loss |-> <<>>]
           [] OTHER -> None]

\* the assignments self.specs[key] = value every builder makes alike
fields(name, freq, h_width, v_width, f_to_b, peak, tilt, comment) ==
    << <<"name", StrV(name)>>, <<"make", StrV("ITU")>>,
       <<"frequency", freq>>, <<"h_width", h_width>>,
       <<"v_width", v_width>>, <<"front_to_back", f_to_b>>,
       <<"gain", peak>>, <<"tilt", tilt>>, <<"polarization", NA>>,
       <<"comment", comment>> >>

\* ITUF699.__beamwidth_from_g_max: math.pow(10, (44.5 - g_max) / 20)
beamwidth_from_g_max(g_max) == Pow10(MulDiv(44500 - g_max, 1, 20))

\* The builders up to the angle loop, as the assignments made, the error
\* raised before the first of them (pre) or after the last of them (post)
\* and g_max, the gain the losses are taken from.
Builder(pre, assigns, post, g_max) ==
    [pre |-> pre, assigns |-> assigns, post |-> post, g_max |-> g_max]

head_ITUF699(p) ==
    IF Missing(p, {"d_to_l", "oper_freq_mhz", "max_gain_dbi"})
    THEN Builder("KeyError", <<>>, "", 0)
    ELSE Builder("",
              fields("ITU-R F.699-8", p["oper_freq_mhz"],
                     FltV(Round2(beamwidth_from_g_max(p["max_gain_dbi"].n))),
                     FltV(Round2(beamwidth_from_g_max(p["max_gain_dbi"].n))),
                     NA, round_2(p["max_gain_dbi"]), IntV(0),
                     <<"Ant. diam to wavelength ratio: ",
                       Round2(p["d_to_l"].n)>>),
              "", p["max_gain_dbi"].n)

\* the gain at 0 degrees alone, nothing taken off it
front_alone(front, back) ==
    IF front.kind = "error" THEN front
    ELSE IF front.kind # "num" THEN ErrRes("TypeError")
    ELSE NumRes(Round2(front.v))

\* f_to_b = self.gain(off_axis_angle=0) - self.gain(off_axis_angle=180)
front_to_back(front, back) ==
    IF front.kind = "error" THEN front
    ELSE IF back.kind = "error" THEN back
    ELSE IF front.kind # "num" \/ back.kind # "num" THEN ErrRes("TypeError")
    ELSE NumRes(Round2(front.v - back.v))

head_ITUF1245(p, f_to_b) ==
    IF Missing(p, {"d_to_l", "oper_freq_mhz", "max_gain_dbi"})
    THEN Builder("KeyError", <<>>, "", 0)
    ELSE IF f_to_b.kind = "error"
    THEN Builder("",
              SubSeq(fields("ITU-R F.1245-3", p["oper_freq_mhz"],
                            FltV(Round2(Div(35000, p["d_to_l"].n))),
                            FltV(Round2(Div(35000, p["d_to_l"].n))),
                            None, None, None, <<>>), 1, 5),
              f_to_b.err, 0)
    ELSE Builder("",
              fields("ITU-R F.1245-3", p["oper_freq_mhz"],
                     FltV(Round2(Div(35000, p["d_to_l"].n))),
                     FltV(Round2(Div(35000, p["d_to_l"].n))),
                     FltV(f_to_b.v), round_2(p["max_gain_dbi"]), IntV(0),
                     <<"Ant. diam to wavelength ratio: ",
                       Round2(p["d_to_l"].n)>>),
              "", p["max_gain_dbi"].n)

head_ITUF1336lg(p) ==
    IF Missing(p, {"oper_freq_mhz", "max_gain_dbi"})
    THEN Builder("",
              SubSeq(fields("ITU-R F.1336-5 Low-Gain", None, None, None,
                            None, None, None, <<>>), 1, 2),
              "KeyError", 0)
    ELSE Builder("",
              fields("ITU-R F.1336-5 Low-Gain", p["oper_freq_mhz"],
                     FltV(Round2(phi_3_ITUF1336lg(
                                     pow_minus_tenth(p["max_gain_dbi"].n)))),
                     FltV(Round2(phi_3_ITUF1336lg(
                                     pow_minus_tenth(p["max_gain_dbi"].n)))),
                     NA, p["max_gain_dbi"], IntV(0), <<"">>),
              "", p["max_gain_dbi"].n)

\* ITUS465 and ITUS580: g_max = round(self.gain(off_axis_angle=phi_min), 2),
\* peak being that gain and phi_min the angle it is taken at
head_ITUS(name, p, phi_min, peak) ==
    IF peak.kind = "error" THEN Builder(peak.err, <<>>, "", 0)
    ELSE IF peak.kind # "num" THEN Builder("TypeError", <<>>, "", 0)
    ELSE Builder("",
              fields(name,
                     IF Has(p, "oper_freq_mhz") THEN p["oper_freq_mhz"]
                     ELSE NA,
                     NA, NA, NA, FltV(Round2(peak.v)), IntV(0),
                     <<"D/lambda: ", Round2(p["d_to_l"].n),
                       ". Gain relates to +/-", Round2(phi_min), " deg.">>),
              "", Round2(peak.v))

head_ITUF1336s(p) ==
    IF Missing(p, {"pattern_type", "performance_type", "tilt_type", "k_p",
                   "k_a", "k_h", "k_v", "freq_range", "beamwidth_az_deg",
                   "beamwidth_el_deg", "max_gain_dbi", "tilt_angle_deg"})
    THEN Builder("KeyError", <<>>, "", 0)
    ELSE Builder("",
              fields("ITU-R F.1336-5 Sectoral", p["freq_range"],
                     p["beamwidth_az_deg"], round_2(p["beamwidth_el_deg"]),
                     NA, p["max_gain_dbi"], p["tilt_angle_deg"],
                     <<"Side-lobe: ", p["pattern_type"].s, "/",
                       p["performance_type"].s, ", tilting: ",
                       p["tilt_type"].s, ", kp=", p["k_p"].n, ", ka=",
                       p["k_a"].n, ", kh=", p["k_h"].n, ", kv=",
                       p["k_v"].n>>),
              "", p["max_gain_dbi"].n)

head_ITUF1336o(p) ==
    IF Missing(p, {"pattern_type", "performance_type", "tilt_type", "k",
                   "oper_freq_mhz", "beamwidth_el_deg", "max_gain_dbi",
                   "tilt_angle_deg"})
    THEN Builder("KeyError", <<>>, "", 0)
    ELSE Builder("",
              fields("ITU-R F.1336-5 Omnidirectional", p["oper_freq_mhz"],
                     IntV(360), round_2(p["beamwidth_el_deg"]), NA,
                     p["max_gain_dbi"], p["tilt_angle_deg"],
                     <<"Side-lobe: ", p["pattern_type"].s, "/",
                       p["performance_type"].s, ", tilting: ",
                       p["tilt_type"].s, ", k=", p["k"].n>>),
              "", p["max_gain_dbi"].n)

\* _update_specs of the model class m up to the angle loop: [builder,
\* delegate], the delegate's params being set by the gain query of ITUS580
head(m, p, dlg) ==
    CASE m = "ITUF699" -> [builder |-> head_ITUF699(p), delegate |-> dlg]
      [] m = "ITUF1245"
         -> [builder |-> head_ITUF1245(p, front_to_back(
                                              gain_ITUF1245(p, 0),
                                              gain_ITUF1245(p, 180000))),
             delegate |-> dlg]
      [] m = "ITUF1336lg"
         -> [builder |-> head_ITUF1336lg(p), delegate |-> dlg]
      [] m = "ITUF1336o" -> [builder |-> head_ITUF1336o(p), delegate |-> dlg]
      [] m = "ITUF1336s" -> [builder |-> head_ITUF1336s(p), delegate |-> dlg]
      [] m = "ITUS465"
         -> [builder |-> IF Missing(p, {"d_to_l"})
                         THEN Builder("KeyError", <<>>, "", 0)
                         ELSE head_ITUS("ITU-R S.465-6", p, phi_min_ITUS465(p),
                                        peak_ITUS465(p)),
             delegate |-> dlg]
      [] m = "ITUS580"
         -> IF Missing(p, {"d_to_l"})
            THEN [builder |-> Builder("KeyError", <<>>, "", 0),
                  delegate |-> dlg]
            ELSE [builder |-> head_ITUS("ITU-R S.580-6", p, phi_min_ITUS580(p),
                                        peak_ITUS580(p, dlg).res),
                  delegate |-> peak_ITUS580(p, dlg).delegate]

\* the classes whose loop fills the two loss lists from two gain queries,
\* and those whose loop tests the gain for None
TwoPlane == {"ITUF1336o", "ITUF1336s"}
MarksNone == {"ITUS465", "ITUS580"}

\* the gain queries of the pass of the loop for the angle a: [h, v]
pass(m, p, dlg, a) ==
    [h |-> gain(m, p, dlg, 1000 * a, 0).res,
     v |-> IF m \in TwoPlane
           THEN gain(m, p, dlg, IF 90 < a /\ a < 270 THEN 180000 ELSE 0,
                     1000 * a).res
           ELSE NoGain]

\* the difference appended as it is, without round(..., 2)
attenuation_unrounded(m, g_max, g) ==
    IF g.kind = "error" THEN [err |-> g.err, v |-> None]
    ELSE IF g.kind = "num" THEN [err |-> "", v |-> FltV(g_max - g.v)]
    ELSE IF m \in MarksNone THEN [err |-> "", v |-> NA]
    ELSE [err |-> "TypeError", v |-> None]

\* round(g_max - gain, 2), or 'n/a' for the gain None where the loop tests
\* for it: [err, v]
attenuation(m, g_max, g) ==
    IF g.kind = "error" THEN [err |-> g.err, v |-> None]
    ELSE IF g.kind = "num"
    THEN [err |-> "", v |-> FltV(Round2(g_max - g.v))]
    ELSE IF m \in MarksNone THEN [err |-> "", v |-> NA]
    ELSE [err |-> "TypeError", v |-> None]

\* what one pass appends to h_loss and to v_loss, v_loss being h_loss
\* itself in the classes with one gain query
row(m, g_max, g) ==
    [h |-> attenuation(m, g_max, g.h),
     v |-> attenuation(m, g_max, IF m \in TwoPlane THEN g.v ELSE g.h)]

raised(r) == IF r.h.err # "" THEN r.h.err ELSE r.v.err

\* The configurations the patterns are built for: for each class a usual
\* one, one with a low peak gain or a gain that is None near the axis, and
\* (F.699, sectoral) one whose gain raises off the axis.
PatternConfigs(m) ==
    CASE m = "ITUF699"
         -> { kw_ITUF699(IntV(23000), IntV(6), None, None),
              kw_ITUF699(IntV(23000), None, IntV(5), None),
              kw_ITUF699(IntV(23000), FltV(500), IntV(-20), None) }
      [] m = "ITUF1245"
         -> { kw_ITUF1245(IntV(26875), StrV("Rec. 2"), IntV(48), None),
              kw_ITUF1245(IntV(26875), StrV("Rec. 3"), IntV(-20),
                          FltV(1800)) }
      [] m = "ITUF1336lg"
         -> { kw_ITUF1336lg(IntV(2000), IntV(10)),
              kw_ITUF1336lg(IntV(2000), IntV(-20)) }
      [] m = "ITUS465"
         -> { kw_ITUS(None, None, IntV(100)),
              kw_ITUS(None, None, IntV(55)),
              kw_ITUS(IntV(2000), FltV(300), None) }
      [] m = "ITUS580"
         -> { kw_ITUS(None, None, IntV(100)),
              kw_ITUS(None, None, IntV(55)),
              kw_ITUS(IntV(77500), FltV(1850), None) }
      [] m = "ITUF1336o"
         -> { kw_ITUF1336o(IntV(806), StrV("peak"), StrV("none"), None, None,
                           None) }
      [] m = "ITUF1336s"
         -> { kw_ITUF1336s(IntV(806), IntV(65), StrV("peak"), StrV("none"),
                           None, None, None),
              kw_ITUF1336s(IntV(806), IntV(65), StrV("peak"), StrV("none"),
                           None, FltV(22500), None) }

\* The gain is a function of self.params and the angle alone, so the gains
\* of the passes of the loop are tabulated once, when the instance is
\* created, for the params these configurations resolve to: sweep holds the
\* table and no action changes it.
Resolved(m) == {set_params(m, EmptyDict, kw).params : kw \in PatternConfigs(m)}

passes(m) ==
    [p \in Resolved(m) |->
        [i \in DOMAIN angles |-> pass(m, p, EmptyDict, angles[i])]]

NoSweep == [p \in {} |-> <<>>]

\* the loop of _update_specs given the gains of its passes: what each pass
\* appends, or raises
rows_of(m, g_max, gains) ==
    [i \in DOMAIN angles |-> row(m, g_max, gains[i])]

rows(m, p, dlg, g_max, table) ==
    IF p \in DOMAIN table THEN rows_of(m, g_max, table[p])
    ELSE rows_of(m, g_max,
                 [i \in DOMAIN angles |-> pass(m, p, dlg, angles[i])])

\* the error of the first pass that raises, "" when none does
loop_error(rs) ==
    IF \A i \in DOMAIN rs : raised(rs[i]) = "" THEN ""
    ELSE raised(rs[CHOOSE i \in DOMAIN rs :
                       /\ raised(rs[i]) # ""
                       /\ \A j \in 1..(i - 1) : raised(rs[j]) = ""])

\* the patterns assigned once and kept from then on
datapoints_once(data, rs) ==
    IF data["h_pattern_datapoint"].loss # <<>> THEN data
    ELSE [data EXCEPT
            !["h_pattern_datapoint"] =
                [phi |-> angles, loss |-> [i \in DOMAIN rs |-> rs[i].h.v]],
            !["v_pattern_datapoint"] =
                [theta |-> angles, loss |-> [i \in DOMAIN rs |-> rs[i].v.v]]]

\* the four assignments that end _update_specs
datapoints(data, rs) ==
    [data EXCEPT
        !["h_pattern_datapoint"] =
            [phi |-> angles, loss |-> [i \in DOMAIN rs |-> rs[i].h.v]],
        !["v_pattern_datapoint"] =
            [theta |-> angles, loss |-> [i \in DOMAIN rs |-> rs[i].v.v]]]

\* _update_specs given its head b and the rows rs of its loop: [specs, err]
build(old, b, rs) ==
    IF b.pre # "" THEN [specs |-> old, err |-> b.pre]
    ELSE IF b.post # ""
    THEN [specs |-> Apply(old, b.assigns, Len(b.assigns)), err |-> b.post]
    ELSE IF loop_error(rs) # ""
    THEN [specs |-> Apply(old, b.assigns, Len(b.assigns)),
          err |-> loop_error(rs)]
    ELSE [specs |-> datapoints(Apply(old, b.assigns, Len(b.assigns)), rs),
          err |-> ""]

\* self._update_specs(): [specs, err, delegate]
built(h, b) == [specs |-> b.specs, err |-> b.err, delegate |-> h.delegate]

update_specs_after(m, p, dlg, old, table, h) ==
    built(h, build(old, h.builder, rows(m, p, dlg, h.builder.g_max, table)))

update_specs(m, p, dlg, old, table) ==
    update_specs_after(m, p, dlg, old, table, head(m, p, dlg))

-----------------------------------------------------------------------------
(* The MSI exporter.  The text is kept line by line: a header line is the  *)
(* keyword, the value formatted into it and the unit that follows, a       *)
(* pattern line is the angle and the loss.                                 *)

\* A value as the text holds it: the digits of a number, with a point for a
\* float and without for an int, or the characters of a string.
Text(num, point, n, s) == [num |-> num, point |-> point, n |-> n, s |-> s]

\* str(value) as an f-string formats it
str(v) ==
    IF IsNone(v) THEN Text(FALSE, FALSE, 0, "None")
    ELSE IF v.t = "int" THEN Text(TRUE, FALSE, v.n, "")
    ELSE IF v.t = "float" THEN Text(TRUE, TRUE, v.n, "")
    ELSE Text(FALSE, FALSE, 0, v.s)

\* every pair of zip(phi, loss), the pair of angle 360 with the others
zipped_all(keys, losses) ==
    [i \in 1..Min(Len(keys), Len(losses)) |-> <<keys[i], losses[i]>>]

\* zip(phi, loss) with `if phi < 360`
zipped(keys, losses) ==
    SelectSeq([i \in 1..Min(Len(keys), Len(losses))
               |-> <<keys[i], losses[i]>>],
              LAMBDA e : e[1] < Cutoff)

\* sorted(h_data): by angle, pairs of one angle by their loss and then kept
\* in the order they come in
ascending(s) == \A i \in 1..(Len(s) - 1) : s[i][1] < s[i + 1][1]

before(s, j, k) ==
    \/ s[j][1] < s[k][1]
    \/ s[j][1] = s[k][1] /\ s[j][2].n < s[k][2].n
    \/ s[j][1] = s[k][1] /\ s[j][2].n = s[k][2].n /\ j < k

sorted(s) ==
    IF ascending(s) THEN s
    ELSE [i \in 1..Len(s) |->
             s[CHOOSE k \in 1..Len(s) :
                   Cardinality({j \in 1..Len(s) : before(s, j, k)}) = i - 1]]

NoFile == [header |-> <<>>, horizontal |-> <<>>, vertical |-> <<>>]

\* f.write(f"{phi} {loss}\n") for each pair
lines(pairs) == [i \in DOMAIN pairs |-> <<pairs[i][1], str(pairs[i][2])>>]

\* MSIExport.export(data, filename): the text written
export(data) ==
    [header |->
        << <<"NAME", str(data["name"]), "">>,
           <<"MAKE", str(data["make"]), "">>,
           <<"FREQUENCY", str(data["frequency"]), "MHz">>,
           <<"H_WIDTH", str(data["h_width"]), "Deg.">>,
           <<"V_WIDTH", str(data["v_width"]), "Deg.">>,
           <<"FRONT_TO_BACK", str(data["front_to_back"]), "dB">>,
           <<"GAIN", str(data["gain"]), "dBi">>,
           <<"TILT", str(data["tilt"]), "Deg.">>,
           <<"POLARIZATION", str(data["polarization"]), "">>,
           <<"COMMENT", data["comment"], "">> >>,
     horizontal |->
        << <<"HORIZONTAL", 360>> >>
        \o lines(sorted(zipped(data["h_pattern_datapoint"].phi,
                               data["h_pattern_datapoint"].loss))),
     vertical |->
        << <<"VERTICAL", 360>> >>
        \o lines(sorted(zipped(data["v_pattern_datapoint"].theta,
                               data["v_pattern_datapoint"].loss)))]

\* Reading the text back: each header line gives the field of its keyword,
\* the lines after HORIZONTAL and VERTICAL give the two patterns.
fields_read ==
    <<"name", "make", "frequency", "h_width", "v_width", "front_to_back",
      "gain", "tilt", "polarization", "comment">>

\* the value a text stands for: a number where it is digits, a float where
\* they have a point, else the string
val(x) ==
    IF ~x.num THEN StrV(x.s)
    ELSE [t |-> IF x.point THEN "float" ELSE "int", n |-> x.n, s |-> ""]

parse(text) ==
    [k \in DOMAIN NoSpecs |->
        CASE k = "h_pattern_datapoint"
             -> [phi |-> [i \in 1..(Len(text.horizontal) - 1)
                          |-> text.horizontal[i + 1][1]],
                 loss |-> [i \in 1..(Len(text.horizontal) - 1)
                           |-> val(text.horizontal[i + 1][2])]]
          [] k = "v_pattern_datapoint"
             -> [theta |-> [i \in 1..(Len(text.vertical) - 1)
                            |-> text.vertical[i + 1][1]],
                 loss |-> [i \in 1..(Len(text.vertical) - 1)
                           |-> val(text.vertical[i + 1][2])]]
          [] k = "comment" -> text.header[10][2]
          [] OTHER
             -> val(text.header[CHOOSE i \in DOMAIN fields_read :
                                    fields_read[i] = k][2])]

NoRequest == [kind |-> "", err |-> "", params |-> EmptyDict]
NoRead == [text |-> NoFile, record |-> NoSpecs]

-----------------------------------------------------------------------------
(* The instance used from one thread: configuration calls and gain queries *)

NotSeen == [has |-> FALSE, p |-> EmptyDict]
NoQuery == [azimuth |-> 0, elevation |-> 0]
NoNorm == [fn |-> "", arg |-> 0, out |-> 0, again |-> FALSE]

\* directions the gain is queried at: the main beam, given as 0 or a whole
\* turn away from it
GainAngles == {-360000, 0, 360000}

\* BaseAntenna.__init__ (and ITUS580.__init__ for the delegate)
Created ==
    /\ model \in Models
    /\ params = EmptyDict
    /\ prev = EmptyDict
    /\ lastKw = EmptyDict
    /\ outcome = NotCalled
    /\ pending = <<>>
    /\ pendErr = ""
    /\ target = EmptyDict
    /\ seen = NotSeen
    /\ delegate = EmptyDict
    /\ query = NoQuery
    /\ gainRes = NoGain
    /\ angle = 0
    /\ shift = 0
    /\ norm = NoNorm
    /\ specs = NoSpecs
    /\ request = NoRequest
    /\ file = NoFile
    /\ readback = NoRead

Init == Created /\ sweep = NoSweep

\* antenna.set_params(**kw), start to finish
SetParams ==
    \E kw \in Kwargs(model) :
        \E r \in {set_params(model, params, kw)} :
            /\ params' = r.params
            /\ prev' = params
            /\ lastKw' = kw
            /\ outcome' = r.ended
            /\ query' = NoQuery
            /\ gainRes' = NoGain
            /\ UNCHANGED <<model, pending, pendErr, target, seen, delegate,
                           angle, shift, norm, specs, request, file, readback,
                           sweep>>

\* the sectoral gain routes modelled: an instance that is not configured
\* (KeyError), or an untilted one in 0.4-6 GHz
GainModelled ==
    model = "ITUF1336s" /\ "freq_range" \in DOMAIN params
    => /\ "tilt_angle_deg" \in DOMAIN params
       /\ params["tilt_type"].s = "none"
       /\ params["tilt_angle_deg"].n = 0
       /\ params["freq_range"].s = "0.4-6 GHz"

\* antenna.gain(off_axis_angle=a), gain(elevation=a) or
\* gain(azimuth=a, elevation=a)
Gain ==
    /\ GainModelled
    /\ \E a \in GainAngles :
        \E g \in {gain(model, params, delegate, a, a)} :
            /\ gainRes' = g.res
            /\ delegate' = g.delegate
            /\ query' = [azimuth |-> a, elevation |-> a]
    /\ UNCHANGED <<model, params, prev, lastKw, outcome, pending, pendErr,
                   target, seen, angle, shift, norm, specs, request, file,
                   readback, sweep>>

Next == SetParams \/ Gain

Spec == Init /\ [][Next]_vars

\* The instance up to its first successful configuration call: set_params
\* is called again only while every call so far has raised, and gain is
\* asked at any time.
SetParamsAgain == outcome.status # "ok" /\ SetParams

ColdNext == SetParamsAgain \/ Gain

ColdSpec == Init /\ [][ColdNext]_vars

-----------------------------------------------------------------------------
(* The instance shared with a reader: set_params runs in one thread, step  *)
(* by step, while another thread reads self.params.  The validator works   *)
(* on a local dict, so its loop and the assignment self.params =           *)
(* validated_params that ends it are one step; each later assignment       *)
(* self.params[key] = value of _post_set_params is a step of its own.      *)

\* the validator loop, the publication and the entry check of the hook
CallBegin ==
    /\ outcome.status # "running"
    /\ \E kw \in Kwargs(model) :
        \E b \in {begin(model, params, kw)} :
            /\ prev' = params
            /\ lastKw' = kw
            /\ seen' = NotSeen
            /\ params' = b.params
            /\ outcome' = b.ended
            /\ pending' = b.pending
            /\ pendErr' = b.pendErr
            /\ target' = b.target
    /\ UNCHANGED <<model, delegate, query, gainRes, angle, shift, norm, specs,
                   request, file, readback, sweep>>

\* one assignment self.params[key] = value of _post_set_params
WriterStep ==
    /\ outcome.status = "running"
    /\ pending # <<>>
    /\ params' = Put(params, Head(pending)[1], Head(pending)[2])
    /\ pending' = Tail(pending)
    /\ UNCHANGED <<model, prev, lastKw, outcome, pendErr, target, seen,
                   delegate, query, gainRes, angle, shift, norm, specs,
                   request, file, readback, sweep>>

\* _post_set_params returns, or raises its closing error
WriterEnd ==
    /\ outcome.status = "running"
    /\ pending = <<>>
    /\ outcome' = post_end(pendErr)
    /\ UNCHANGED <<model, params, prev, lastKw, pending, pendErr, target,
                   seen, delegate, query, gainRes, angle, shift, norm, specs,
                   request, file, readback, sweep>>

\* the reader takes self.params
Observe ==
    /\ seen' = [has |-> TRUE, p |-> params]
    /\ UNCHANGED <<model, params, prev, lastKw, outcome, pending, pendErr,
                   target, delegate, query, gainRes, angle, shift, norm,
                   specs, request, file, readback, sweep>>

ConcNext == CallBegin \/ WriterStep \/ WriterEnd \/ Observe

ConcSpec == Init /\ [][ConcNext]_vars

-----------------------------------------------------------------------------
(* The three angle normalisers on their own, applied to angles on a grid   *)
(* of half degrees, to an angle whole turns away and to their own result.  *)

MaxAngle == 400
MaxTurns == 2

Normalisers == {"off_axis", "azimuth", "elevation"}

normalize(fn, a) ==
    CASE fn = "off_axis" -> normalize_off_axis_angle(a)
      [] fn = "azimuth" -> normalize_azimuth(a)
      [] fn = "elevation" -> normalize_elevation(a)

NormInit ==
    /\ model = "ITUF1336s"
    /\ params = EmptyDict
    /\ prev = EmptyDict
    /\ lastKw = EmptyDict
    /\ outcome = NotCalled
    /\ pending = <<>>
    /\ pendErr = ""
    /\ target = EmptyDict
    /\ seen = NotSeen
    /\ delegate = EmptyDict
    /\ query = NoQuery
    /\ gainRes = NoGain
    /\ angle \in {500 * h : h \in (-2 * MaxAngle)..(2 * MaxAngle)}
    /\ shift = 0
    /\ norm = NoNorm
    /\ specs = NoSpecs
    /\ request = NoRequest
    /\ file = NoFile
    /\ readback = NoRead
    /\ sweep = NoSweep

\* the caller adds or removes a whole turn
Turn ==
    /\ \E d \in {-1, 1} :
        /\ Abs(shift + d) <= MaxTurns
        /\ shift' = shift + d
    /\ norm' = NoNorm
    /\ UNCHANGED <<model, params, prev, lastKw, outcome, pending, pendErr,
                   target, seen, delegate, query, gainRes, angle, specs,
                   request, file, readback, sweep>>

\* a normaliser is applied to the angle
Normalise ==
    /\ \E fn \in Normalisers :
        LET a == angle + 360000 * shift
        IN  norm' = [fn |-> fn, arg |-> a, out |-> normalize(fn, a),
                     again |-> FALSE]
    /\ UNCHANGED <<model, params, prev, lastKw, outcome, pending, pendErr,
                   target, seen, delegate, query, gainRes, angle, shift,
                   specs, request, file, readback, sweep>>

\* the same normaliser is applied to its own result
Renormalise ==
    /\ norm.fn # ""
    /\ ~norm.again
    /\ norm' = [fn |-> norm.fn, arg |-> norm.out,
                out |-> normalize(norm.fn, norm.out), again |-> TRUE]
    /\ UNCHANGED <<model, params, prev, lastKw, outcome, pending, pendErr,
                   target, seen, delegate, query, gainRes, angle, shift,
                   specs, request, file, readback, sweep>>

NormNext == Turn \/ Normalise \/ Renormalise

NormSpec == NormInit /\ [][NormNext]_vars

-----------------------------------------------------------------------------
(* The loop of __normalize_elevation step by step, on angles as Python     *)
(* holds them.  An angle of the grid of thousandths is kept as its count   *)
(* of thousandths, and 180 - angle and -180 - angle are exact on it.  A    *)
(* double from 2^61 degrees up is kept as its sign, the exponent e of its  *)
(* last bit and the offset j of its mantissa, that is as                   *)
(* sign * (2^52 + j) * 2^e: its neighbours lie 2^e >= 512 apart (256 below *)
(* the mantissa 2^52), so that 180 is less than half the way to either     *)
(* neighbour once e >= 10 or j >= 1, and the sum is rounded back.          *)

Grid(n) == [big |-> FALSE, n |-> n, e |-> 0, j |-> 0]
Huge(sign, e, j) == [big |-> TRUE, n |-> sign, e |-> e, j |-> j]

\* angle > 90 and angle < -90
above_90(x) == IF x.big THEN x.n > 0 ELSE x.n > 90000
below_90(x) == IF x.big THEN x.n < 0 ELSE x.n < -90000

\* one pass of the loop: angle = 180 - angle above 90, angle = -180 - angle
\* below -90, as doubles
reflected(x) ==
    CASE ~x.big -> IF x.n > 90000 THEN Grid(180000 - x.n)
                   ELSE Grid(-180000 - x.n)
      [] x.big /\ (x.e >= 10 \/ (x.e = 9 /\ x.j >= 1)) -> Huge(-x.n, x.e, x.j)

\* elevations a caller asks for: the grid of 45 degrees over six turns,
\* the angles next to the poles, and 2^61 + 512, 2^62 and -(2^62 + 1024)
Elevations ==
    {Grid(45000 * k) : k \in -24..24}
    \cup {Grid(90001), Grid(-90001), Grid(89999), Grid(269999)}
    \cup {Huge(1, 9, 1), Huge(1, 10, 0), Huge(-1, 10, 1)}

LoopInit == Created /\ model \in TwoPlane /\ sweep = NoSweep

\* gain(elevation=a) calls __normalize_elevation(a)
Enter ==
    /\ norm.fn # "loop"
    /\ \E a \in Elevations :
        norm' = [fn |-> "loop", arg |-> a, out |-> a, again |-> FALSE]
    /\ UNCHANGED <<model, params, prev, lastKw, outcome, pending, pendErr,
                   target, seen, delegate, query, gainRes, angle, shift,
                   specs, request, file, readback, sweep>>

\* the test of the while holds: one pass
Reflect ==
    /\ norm.fn = "loop"
    /\ above_90(norm.out) \/ below_90(norm.out)
    /\ norm' = [norm EXCEPT !.out = reflected(norm.out), !.again = TRUE]
    /\ UNCHANGED <<model, params, prev, lastKw, outcome, pending, pendErr,
                   target, seen, delegate, query, gainRes, angle, shift,
                   specs, request, file, readback, sweep>>

\* the test of the while fails: return angle
Return ==
    /\ norm.fn = "loop"
    /\ ~(above_90(norm.out) \/ below_90(norm.out))
    /\ norm' = [norm EXCEPT !.fn = "return"]
    /\ UNCHANGED <<model, params, prev, lastKw, outcome, pending, pendErr,
                   target, seen, delegate, query, gainRes, angle, shift,
                   specs, request, file, readback, sweep>>

LoopNext == Enter \/ Reflect \/ Return

LoopSpec == LoopInit /\ [][LoopNext]_vars

\* a call that has begun goes on: the loop runs in the caller's thread
LoopLive == LoopSpec /\ WF_vars(Reflect) /\ WF_vars(Return)

-----------------------------------------------------------------------------
(* The tilt transform of the sectoral and the omnidirectional model on its *)
(* own: the instance is configured with a tilt type and a tilt angle, and  *)
(* the transform is applied to normalised directions away from the poles.  *)

TiltModels == {"ITUF1336o", "ITUF1336s"}

\* tilt types and angles: no tilt, with and without an angle given, and each
\* kind of tilt by nothing, downwards and upwards
Tilts ==
    { <<StrV("none"), None>>, <<StrV("none"), IntV(10)>>,
      <<StrV("mechanical"), IntV(0)>>, <<StrV("mechanical"), IntV(10)>>,
      <<StrV("electrical"), IntV(0)>>, <<StrV("electrical"), IntV(10)>>,
      <<StrV("electrical"), IntV(-10)>> }

TiltConfigs(m) ==
    IF m = "ITUF1336o"
    THEN { kw_ITUF1336o(IntV(806), StrV("peak"), t[1], t[2], None, None) :
           t \in Tilts }
    ELSE { kw_ITUF1336s(IntV(806), IntV(65), StrV("peak"), t[1], t[2], None,
                        None) : t \in Tilts }

TiltAzimuths == {-45000, 0, 60000, 90000, 200000}
TiltElevations == {-30000, 0, 10000, 60000, 150000}

\* the transform as gain calls it in the class m; the omnidirectional one
\* takes and returns the elevation alone
normalize_tilted_angles(m, p, phi_h, theta_h) ==
    IF m = "ITUF1336o"
    THEN [phi |-> phi_h,
          theta |-> normalize_tilted_angles_ITUF1336o(p, theta_h)]
    ELSE normalize_tilted_angles_ITUF1336s(p, phi_h, theta_h)

TiltInit == Created /\ model \in TiltModels /\ sweep = NoSweep

\* the first set_params call of the instance
SetTilt ==
    /\ outcome = NotCalled
    /\ \E kw \in TiltConfigs(model) :
        \E r \in {set_params(model, params, kw)} :
            /\ params' = r.params
            /\ prev' = params
            /\ lastKw' = kw
            /\ outcome' = r.ended
    /\ UNCHANGED <<model, pending, pendErr, target, seen, delegate, query,
                   gainRes, angle, shift, norm, specs, request, file,
                   readback, sweep>>

\* the head of gain(azimuth=a, elevation=e): the two normalisers, then the
\* tilt transform
Tilt ==
    /\ outcome.status = "ok"
    /\ \E a \in TiltAzimuths, e \in TiltElevations :
        /\ query' = [azimuth |-> a, elevation |-> e]
        /\ norm' = [fn |-> "tilted",
                    arg |-> [phi |-> normalize_azimuth(a),
                             theta |-> normalize_elevation(e)],
                    out |-> normalize_tilted_angles(
                                model, params, normalize_azimuth(a),
                                normalize_elevation(e)),
                    again |-> FALSE]
    /\ UNCHANGED <<model, params, prev, lastKw, outcome, pending, pendErr,
                   target, seen, delegate, gainRes, angle, shift, specs,
                   request, file, readback, sweep>>

TiltNext == SetTilt \/ Tilt

TiltSpec == TiltInit /\ [][TiltNext]_vars

-----------------------------------------------------------------------------
(* The instance configured, then asked for its patterns: export and        *)
(* show_patterns rebuild self.specs from self.params, the exporter writes  *)
(* the record and a reader parses the text.                                *)

\* antenna.set_params(**kw) with one of the configurations above
Configure ==
    /\ \E kw \in PatternConfigs(model) :
        \E r \in {set_params(model, params, kw)} :
            /\ params' = r.params
            /\ prev' = params
            /\ lastKw' = kw
            /\ outcome' = r.ended
    /\ UNCHANGED <<model, pending, pendErr, target, seen, delegate, query,
                   gainRes, angle, shift, norm, specs, request, file,
                   readback, sweep>>

\* BaseAntenna.export(MSIExport(), filename): _update_specs, then the
\* exporter, which an error of _update_specs keeps from running
Export ==
    /\ \E u \in {update_specs(model, params, delegate, specs, sweep)} :
        /\ specs' = u.specs
        /\ delegate' = u.delegate
        /\ request' = [kind |-> "export", err |-> u.err, params |-> params]
        /\ file' = IF u.err = "" THEN export(u.specs) ELSE file
    /\ UNCHANGED <<model, params, prev, lastKw, outcome, pending, pendErr,
                   target, seen, query, gainRes, angle, shift, norm, readback,
                   sweep>>

\* BaseAntenna.show_patterns(): _update_specs, then the plots
ShowPatterns ==
    /\ \E u \in {update_specs(model, params, delegate, specs, sweep)} :
        /\ specs' = u.specs
        /\ delegate' = u.delegate
        /\ request' = [kind |-> "show_patterns", err |-> u.err,
                       params |-> params]
    /\ UNCHANGED <<model, params, prev, lastKw, outcome, pending, pendErr,
                   target, seen, query, gainRes, angle, shift, norm, file,
                   readback, sweep>>

\* the written text is read back
Read ==
    /\ file # NoFile
    /\ readback' = [text |-> file, record |-> parse(file)]
    /\ UNCHANGED <<model, params, prev, lastKw, outcome, pending, pendErr,
                   target, seen, delegate, query, gainRes, angle, shift, norm,
                   specs, request, file, sweep>>

PatternNext == Configure \/ Export \/ ShowPatterns \/ Read

\* the instance created, the gains of its pattern loops tabulated
PatternInit == Created /\ sweep = passes(model)

PatternSpec == PatternInit /\ [][PatternNext]_vars

-----------------------------------------------------------------------------
(* Gain queries off the main beam.  A stop of a chain of regions is an     *)
(* angle at which one region ends and the next begins: at is the angle,    *)
(* above the result of the formula of the region that begins there and     *)
(* below, for a stop whose test is <=, the result of the formula of the    *)
(* region that ends there (NoGain for the other stops).                    *)

Stop(at, above) == [at |-> at, above |-> above, below |-> NoGain]
ClosedStop(at, above, below) == [at |-> at, above |-> above, below |-> below]

\* the stops of the chain shared by __gain_21, __gain_22 and __gain_23
stops_ITUF699(p, m, r, level, far, floor) ==
    << Stop(m, NumRes(g_1(p))),
       Stop(r, NumRes(level - 25 * Log10(r))),
       Stop(far, NumRes(floor)) >>

\* far and floor of __gain_21 and __gain_22 by band
far_by_band(p) == IF p["freq_band"].s = "70-86 GHz" THEN 120000 ELSE 48000

chain_ITUF699(p) ==
    IF p["freq_band"].s = "0.1-1 GHz"
    THEN stops_ITUF699(p, phi_m(p), Div(100000, p["d_to_l"].n),
                       52000 - 10 * Log10(p["d_to_l"].n),
                       Power(144500, p["d_to_l"].n, -200),
                       -2000 - 5 * Log10(p["d_to_l"].n))
    ELSE IF p["d_to_l"].n > 100000
    THEN stops_ITUF699(p, phi_m(p), Power(15850, p["d_to_l"].n, -600), 32000,
                       far_by_band(p),
                       IF far_by_band(p) = 48000 THEN -10000 ELSE -20000)
    ELSE stops_ITUF699(p, phi_m(p), Div(100000, p["d_to_l"].n),
                       52000 - 10 * Log10(p["d_to_l"].n), far_by_band(p),
                       (IF far_by_band(p) = 48000 THEN 10000 ELSE 0)
                       - 10 * Log10(p["d_to_l"].n))

\* the stops of __gain_rec2
chain_rec2(p, m, r) ==
    IF p["d_to_l"].n > 100000
    THEN << Stop(m, NumRes(g_1(p))),
            Stop(Max(m, r), NumRes(29000 - 25 * Log10(Max(m, r)))),
            Stop(far_by_band(p),
                 NumRes(IF far_by_band(p) = 48000 THEN -13000 ELSE -23000)) >>
    ELSE << Stop(m, NumRes(39000 - 5 * Log10(p["d_to_l"].n) - 25 * Log10(m))),
            Stop(far_by_band(p),
                 NumRes((IF far_by_band(p) = 48000 THEN -3000 ELSE -13000)
                        - 5 * Log10(p["d_to_l"].n))) >>

\* the stops of __gain_rec3, r being phi_r
stops_rec3(p, r, level, floor) ==
    << Stop(r, NumRes(level - 25 * Log10(r) + f_phi(r, r))),
       Stop(far_by_band(p), NumRes(floor + f_phi(far_by_band(p), r))) >>

chain_rec3(p) ==
    IF p["d_to_l"].n > 100000
    THEN stops_rec3(p, Power(15850, p["d_to_l"].n, -600), 32000,
                    IF far_by_band(p) = 48000 THEN -10000 ELSE -20000)
    ELSE stops_rec3(p, Power(39800, p["d_to_l"].n, -800),
                    42000 - 5 * Log10(p["d_to_l"].n),
                    (IF far_by_band(p) = 48000 THEN 0 ELSE -10000)
                    - 5 * Log10(p["d_to_l"].n))

\* the stops of ITUF1336lg.gain
stops_ITUF1336lg(g_0, phi_3, phi_1, phi_2) ==
    << Stop(Mul(1080, phi_3), NumRes(g_0 - 14000)),
       Stop(phi_1, NumRes(g_0 - 14000 - 32 * Log10(Div(phi_1, phi_1)))),
       Stop(phi_2, NumRes(-8000)) >>

chain_ITUF1336lg(g_0, phi_3) ==
    stops_ITUF1336lg(g_0, phi_3, Mul(1900, phi_3),
                     Mul(Mul(1900, phi_3), Pow10((g_0 - 6000) \div 32)))

\* the stops of ITUS465.gain
chain_ITUS465(p) ==
    << Stop(phi_min_ITUS465(p),
            NumRes(32000 - 25 * Log10(phi_min_ITUS465(p)))),
       Stop(48000, NumRes(-10000)) >>

\* the stops of ITUS580.gain: its tests at 20 and 26.3 degrees are <=
chain_ITUS580(p, s465) ==
    << Stop(phi_min_ITUS580(p),
            NumRes(29000 - 25 * Log10(phi_min_ITUS580(p)))),
       ClosedStop(20000, NumRes(Min(-3500, gain_ITUS465(s465, 20000).v)),
                  NumRes(29000 - 25 * Log10(20000))),
       ClosedStop(26300, gain_ITUS465(s465, 26300),
                  NumRes(Min(-3500, gain_ITUS465(s465, 26300).v))) >>

\* the stops of ITUF1336o.__gain_peak and __gain_average without tilt
chain_ITUF1336o(p) ==
    IF p["pattern_type"].s = "peak"
    THEN << Stop(Mul(p["beamwidth_el_deg"].n, Sqrt(1000 - log_k_term(p))),
                 NumRes(p["max_gain_dbi"].n - 12000
                        + 10 * Log10(p["k"].n + 1000))),
            Stop(p["beamwidth_el_deg"].n,
                 NumRes(p["max_gain_dbi"].n - 12000
                        + 10 * Log10(Pow(1000, -1500) + p["k"].n))) >>
    ELSE << Stop(p["beamwidth_el_deg"].n,
                 NumRes(p["max_gain_dbi"].n - 15000
                        + 10 * Log10(p["k"].n + 1000))),
            Stop(Mul(p["beamwidth_el_deg"].n, Sqrt(1250 + log_k_term(p))),
                 NumRes(p["max_gain_dbi"].n - 15000
                        + 10 * Log10(Pow(Div(Mul(p["beamwidth_el_deg"].n,
                                                 Sqrt(1250 + log_k_term(p))),
                                             p["beamwidth_el_deg"].n), -1500)
                                     + p["k"].n))) >>

\* the stop of __g_hr_peak and __g_hr_average at x_h = 0.5, whose test is
\* <=, in the horizontal plane, where the gain is g_0 + g_hr(x_h); both
\* formulas are -12 * 0.25 = -3 there, whatever k_h is
chain_ITUF1336s(p, avg) ==
    << ClosedStop(p["beamwidth_az_deg"].n \div 2,
                  NumRes(p["max_gain_dbi"].n + Max(-3000, g_180(p, avg))),
                  NumRes(p["max_gain_dbi"].n
                         + Max(-Mul(12000, Mul(500, 500)), g_180(p, avg)))) >>

\* the chain that answers the queries of a configured instance; none where
\* every query raises, or tilt moves the angle before the chain
chain(m, p) ==
    CASE m = "ITUF699"
         -> IF \/ discriminant(p) < 0
               \/ p["freq_band"].s = "0.1-1 GHz" /\ p["d_to_l"].n < 630
            THEN <<>> ELSE chain_ITUF699(p)
      [] m = "ITUF1245"
         -> IF p["calc_opt"].s # "Rec. 2" THEN chain_rec3(p)
            ELSE IF discriminant(p) < 0 THEN <<>>
            ELSE chain_rec2(p, phi_m(p), Power(12020, p["d_to_l"].n, -600))
      [] m = "ITUF1336lg"
         -> chain_ITUF1336lg(p["max_gain_dbi"].n,
                phi_3_ITUF1336lg(pow_minus_tenth(p["max_gain_dbi"].n)))
      [] m = "ITUF1336o"
         -> IF p["tilt_type"].s = "none" THEN chain_ITUF1336o(p) ELSE <<>>
      [] m = "ITUF1336s"
         -> chain_ITUF1336s(p, p["pattern_type"].s = "average")
      [] m = "ITUS465" -> chain_ITUS465(p)
      [] m = "ITUS580"
         -> chain_ITUS580(p, [d_to_l |-> p["d_to_l"]])

\* the angle the regions are tested at stays below this
Span(m) == IF m = "ITUF1336o" THEN 90000 ELSE 180000

\* the stops of a chain whose regions lie in the order of its tests
InOrder(m, c) ==
    /\ c # <<>>
    /\ c[1].at > 0
    /\ c[Len(c)].at <= Span(m)
    /\ \A i \in 1..(Len(c) - 1) : c[i].at < c[i + 1].at

Stops(m, p) ==
    IF p = EmptyDict \/ ~InOrder(m, chain(m, p)) THEN {}
    ELSE {chain(m, p)[i] : i \in DOMAIN chain(m, p)}

QueryAngles ==
    {0, 1000, 10000, 20000, 23000, 26300, 30000, 48000, 120000, 180000,
     -20000, 340000}

\* antenna.set_params(**kw), the first call of an instance
SetUp ==
    /\ outcome = NotCalled
    /\ \E kw \in Configs(model) :
        \E r \in {set_params(model, params, kw)} :
            /\ params' = r.params
            /\ prev' = params
            /\ lastKw' = kw
            /\ outcome' = r.ended
            /\ query' = NoQuery
            /\ gainRes' = NoGain
    /\ UNCHANGED <<model, pending, pendErr, target, seen, delegate, angle,
                   shift, norm, specs, request, file, readback, sweep>>

\* antenna.gain(off_axis_angle=a), gain(elevation=a) or
\* gain(azimuth=a, elevation=0), off the main beam and at the stops
GainOffAxis ==
    /\ GainModelled
    /\ \E a \in QueryAngles \cup {s.at : s \in Stops(model, params)} :
        \E g \in {gain(model, params, delegate, a,
                       IF model = "ITUF1336o" THEN a ELSE 0)} :
            /\ gainRes' = g.res
            /\ delegate' = g.delegate
            /\ query' = [azimuth |-> a,
                         elevation |-> IF model = "ITUF1336o" THEN a ELSE 0]
    /\ UNCHANGED <<model, params, prev, lastKw, outcome, pending, pendErr,
                   target, seen, angle, shift, norm, specs, request, file,
                   readback, sweep>>

QueryNext == SetUp \/ GainOffAxis

QuerySpec == Init /\ [][QueryNext]_vars

\* An S.580 instance configured any number of times, with calls that run
\* through and calls that raise, and queried in between.
DelegateInit == Created /\ model = "ITUS580" /\ sweep = NoSweep

\* angles below phi_min, up to 20 degrees, in the band up to 26.3 degrees
\* and beyond it, given as they are and a turn or a mirror image away
DelegateAngles ==
    {0, 10000, 20000, 23000, 26300, 30000, 120000, -30000, 337000, 390000}

\* antenna.gain(off_axis_angle=a)
GainBeyond ==
    /\ \E a \in DelegateAngles :
        \E g \in {gain(model, params, delegate, a, 0)} :
            /\ gainRes' = g.res
            /\ delegate' = g.delegate
            /\ query' = [azimuth |-> a, elevation |-> 0]
    /\ UNCHANGED <<model, params, prev, lastKw, outcome, pending, pendErr,
                   target, seen, angle, shift, norm, specs, request, file,
                   readback, sweep>>

DelegateNext == SetParams \/ GainBeyond

DelegateSpec == DelegateInit /\ [][DelegateNext]_vars

-----------------------------------------------------------------------------
(* Properties of the configuration calls (Spec) *)

Supplied(k) == k \in DOMAIN lastKw /\ lastKw[k] # None

\* C1: a set_params call that the validator rejects (for instance an
\* operating frequency below the model's minimum, an out-of-range error)
\* leaves the instance's ParameterSet exactly as it was before the call.
C1_RejectedCallKeepsParams ==
    outcome.status = "error" /\ outcome.step = "validate" => params = prev

\* the sectoral model, configured, is then given a 50 MHz frequency
C1_Witness ==
    /\ model = "ITUF1336s"
    /\ outcome = Ended("error", "validate",
                       Error("OutOfRange", "oper_freq_mhz", ""))
    /\ lastKw.oper_freq_mhz = IntV(50)
    /\ "freq_range" \in DOMAIN prev
    /\ params = prev

\* C2: a set_params call that fails in _post_set_params (no sufficient
\* subset of inputs for F.699, F.1245, S.465 or S.580, or a derived
\* d_to_l below 50 for S.580) commits nothing: the ParameterSet is the one
\* from before the call.
C2_FailedResolveKeepsParams ==
    outcome.status = "error" /\ outcome.step = "post" => params = prev

\* C4: for F.699, F.1245, S.465 and S.580 a call that passes the validator
\* but supplies no sufficient subset of inputs, none at all included, fails
\* inside the call with the incomplete-parameters error.
SufficientInputs ==
    CASE model = "ITUF699" -> Supplied("max_gain_dbi") \/ Supplied("diameter_m")
                              \/ Supplied("beamwidth_deg")
      [] model = "ITUF1245" -> Supplied("max_gain_dbi") \/ Supplied("diameter_m")
      [] model \in {"ITUS465", "ITUS580"}
         -> Supplied("d_to_l")
            \/ (Supplied("oper_freq_mhz") /\ Supplied("diameter_m"))
      [] OTHER -> TRUE

C4_InsufficientInputsRejected ==
    /\ outcome.status # "none"
    /\ outcome.step # "validate"
    /\ ~SufficientInputs
    => outcome = Ended("error", "post", Error("IncompleteParameters", "", ""))

\* what the schema says of one parameter under the keyword arguments of the
\* last call: whether its dependency clause holds, and the first rule the
\* value breaks, in the order missing, type, range, allowed ("" when none)
DependencyHolds(rules) ==
    /\ rules.category = "conditional"
    /\ rules.depends_on # <<>>
    /\ LET dep == lastKw[rules.depends_on[1]]
       IN  IF rules.depends_on[1] = "tilt_type"
           THEN dep # StrV("none")
           ELSE dep.t \in Number /\ dep.n > 120000

FirstBreak(rules) ==
    LET value == lastKw[rules.name]
    IN  IF value = None
        THEN IF rules.category = "mandatory" \/ DependencyHolds(rules)
             THEN "MissingParameter" ELSE ""
        ELSE IF value.t \notin rules.types THEN "TypeMismatch"
        ELSE IF rules.range # <<>>
                /\ (value.n < rules.range[1] \/ value.n > rules.range[2])
        THEN "OutOfRange"
        ELSE IF rules.allowed # <<>>
                /\ \A i \in 1..Len(rules.allowed) : rules.allowed[i] # value.s
        THEN "NotAllowed"
        ELSE ""

Breaking == {i \in 1..Len(PARAMS(model)) : FirstBreak(PARAMS(model)[i]) # ""}

Earliest(S) == CHOOSE i \in S : \A j \in S : i <= j

\* C5: the validator goes through the parameters in declaration order and
\* reports the first violation it meets: the call is rejected exactly when
\* some parameter breaks a rule, the error names the earliest declared such
\* parameter, and for that parameter the type is looked at before the
\* range and the range before the allowed values.
C5_FirstViolationInOrder ==
    outcome.status # "none" =>
        IF Breaking = {} THEN outcome.step # "validate"
        ELSE /\ outcome.step = "validate"
             /\ outcome.err.param = PARAMS(model)[Earliest(Breaking)].name
             /\ outcome.err.kind = FirstBreak(PARAMS(model)[Earliest(Breaking)])

\* three parameters of one F.1245 call break a rule; the first is reported
C5_Witness ==
    /\ model = "ITUF1245"
    /\ outcome.step = "validate"
    /\ Cardinality(Breaking) = 3
    /\ outcome.err = Error("OutOfRange", "oper_freq_mhz", "")

\* the position of a parameter in the schema, and whether the validator of
\* the last call got as far as that parameter
Position(name) ==
    CHOOSE i \in 1..Len(PARAMS(model)) : PARAMS(model)[i].name = name

Reached(name) ==
    outcome.step # "validate"
    \/ Position(outcome.err.param) >= Position(name)

MissingConditional(name) ==
    /\ outcome.step = "validate"
    /\ outcome.err.kind = "MissingParameter"
    /\ outcome.err.param = name

\* C6: a conditional parameter is reported missing exactly when its
\* dependency clause holds and no value was supplied: tilt_angle_deg when
\* tilt_type is not 'none' (omni and sectoral), the sectoral
\* beamwidth_el_deg when beamwidth_az_deg is above 120.
C6_ConditionalMissing ==
    /\ model \in {"ITUF1336o", "ITUF1336s"} /\ outcome.status # "none"
       => (MissingConditional("tilt_angle_deg")
           <=> /\ Reached("tilt_angle_deg")
               /\ lastKw.tilt_type # StrV("none")
               /\ lastKw.tilt_angle_deg = None)
    /\ model = "ITUF1336s" /\ outcome.status # "none"
       => (MissingConditional("beamwidth_el_deg")
           <=> /\ Reached("beamwidth_el_deg")
               /\ lastKw.beamwidth_az_deg.n > 120000
               /\ lastKw.beamwidth_el_deg = None)

\* a 130 degree sector without an elevation beamwidth
C6_Witness ==
    /\ model = "ITUF1336s"
    /\ outcome.err = Error("MissingParameter", "beamwidth_el_deg",
                           "beamwidth_az_deg")
    /\ lastKw.beamwidth_az_deg = IntV(130)
    /\ lastKw.beamwidth_el_deg = None

\* C7: after a successful set_params the ParameterSet is built from that
\* call alone: it is what the same call gives on a fresh instance, so
\* nothing of an earlier configuration survives.
C7_FullReplacement ==
    outcome.status = "ok" => params = set_params(model, EmptyDict, lastKw).params

\* a sector with an electrical tilt of 3 and supplied k-factors is
\* reconfigured without tilt and without k-factors
C7_Witness ==
    /\ model = "ITUF1336s"
    /\ outcome.status = "ok"
    /\ "k_h" \in DOMAIN prev /\ prev["k_h"] = FltV(500)
    /\ prev["tilt_type"] = StrV("electrical")
    /\ prev["tilt_angle_deg"] = IntV(3)
    /\ lastKw.tilt_type = StrV("none") /\ lastKw.k_h = None
    /\ params["tilt_angle_deg"] = IntV(0)
    /\ params["k_h"] = FltV(700)

\* the parameters the resolver defined: those the ParameterSet holds that
\* the call did not supply
Resolver == {"ITUF699", "ITUF1245"}
DerivedKeys == {k \in DOMAIN params : Has(params, k) /\ ~Supplied(k)}
FailedInPost == outcome.status = "error" /\ outcome.step = "post"

\* C17: in F.699 and F.1245 every call that passes the validator with one
\* of the non-empty patterns of supplied max_gain_dbi, diameter_m and (F.699)
\* beamwidth_deg is resolved by one case, picked by the pattern and not by
\* the values: it does not fail in the resolver, both d_to_l and
\* max_gain_dbi are defined after it, and what the resolver defined is
\* d_to_l, the band and, where it was not supplied, max_gain_dbi.
C17_OneCasePerPattern ==
    model \in Resolver =>
        /\ FailedInPost => ~SufficientInputs
        /\ outcome.status = "ok" =>
            /\ SufficientInputs
            /\ Has(params, "d_to_l") /\ Has(params, "max_gain_dbi")
            /\ DerivedKeys
               = {"freq_band", "d_to_l"}
                 \cup (IF Supplied("max_gain_dbi") THEN {}
                       ELSE {"max_gain_dbi"})

\* F.699 given max_gain_dbi and beamwidth_deg without a diameter: case 5
C17_Witness ==
    /\ model = "ITUF699"
    /\ outcome.status = "ok"
    /\ Supplied("max_gain_dbi") /\ Supplied("beamwidth_deg")
    /\ ~Supplied("diameter_m")
    /\ DerivedKeys = {"freq_band", "d_to_l"}

-----------------------------------------------------------------------------
(* Properties of the gain at boresight (Spec) *)

\* a query straight at the main beam has been answered
Queried == gainRes # NoGain /\ query.azimuth = 0 /\ query.elevation = 0

\* C8: for F.699, F.1245, the low-gain model and the omni and sectoral
\* models without tilt, and every successfully resolved configuration, the
\* gain at boresight is the stored max_gain_dbi.
C8_BoresightGainIsPeak ==
    /\ outcome.status = "ok"
    /\ Queried
    /\ model \in {"ITUF699", "ITUF1245", "ITUF1336lg", "ITUF1336o", "ITUF1336s"}
    /\ model \in {"ITUF1336o", "ITUF1336s"} => params["tilt_angle_deg"].n = 0
    => gainRes = NumRes(params["max_gain_dbi"].n)

\* F.699 configured with a frequency and a diameter and no maximum gain
DishOnly ==
    /\ model = "ITUF699"
    /\ outcome.status = "ok"
    /\ Supplied("oper_freq_mhz") /\ Supplied("diameter_m")
    /\ ~Supplied("max_gain_dbi")

\* diameter / (299.792458 / frequency) and 20 * log10 of it + 7.7
DishRatio ==
    MulDivNat(lastKw.diameter_m.n, 1000000,
              MulDivNat(299792458, 1000, lastKw.oper_freq_mhz.n))
DishGain == 20 * Log10(DishRatio) + 7700

Derived == params["d_to_l"].n = DishRatio /\ params["max_gain_dbi"].n = DishGain

\* the band in which the F.699 gain is defined only for D/lambda >= 0.63
SmallLowBandDish == lastKw.oper_freq_mhz.n <= 1000000 /\ DishRatio < 630

-----------------------------------------------------------------------------
(* Properties of the resolver's priority (Spec) *)

\* d_to_l by the priority of the resolver: from the dish, else from
\* max_gain_dbi, else from beamwidth_deg
ByPriority ==
    IF Supplied("diameter_m") THEN DishRatio
    ELSE IF Supplied("max_gain_dbi")
    THEN Pow10((lastKw.max_gain_dbi.n - 7700) \div 20)
    ELSE Div(70000, lastKw.beamwidth_deg.n)

\* C18: of several sufficient inputs the resolver follows a fixed priority
\* and compares nothing: in F.699 and F.1245 d_to_l comes from diameter_m
\* and the wavelength when diameter_m is supplied, else from max_gain_dbi,
\* else (F.699) from beamwidth_deg, and a supplied max_gain_dbi stays as
\* supplied; in S.465 and S.580 a supplied d_to_l stays as supplied also
\* beside a frequency and a diameter; and a call that passed the validator
\* with sufficient inputs is not rejected, but for the d_to_l below 50 of
\* S.580.
C18_FixedPriorityNoCrossCheck ==
    /\ outcome.status = "ok" /\ model \in Resolver =>
        /\ params["d_to_l"] = FltV(ByPriority)
        /\ Supplied("max_gain_dbi") =>
            params["max_gain_dbi"] = lastKw.max_gain_dbi
    /\ outcome.status = "ok" /\ model \in {"ITUS465", "ITUS580"}
       /\ Supplied("d_to_l") =>
        params["d_to_l"] = lastKw.d_to_l
    /\ FailedInPost /\ SufficientInputs =>
        /\ model = "ITUS580"
        /\ outcome.err.kind = "InvalidParameterValue"
        /\ (IF Supplied("d_to_l") THEN lastKw.d_to_l.n ELSE DishRatio) < 50000

\* the demo's F.699 call, a 45 dBi maximum gain beside the 6 m dish whose
\* own gain is 60.96 dBi
C18_Witness ==
    /\ outcome.status = "ok"
    /\ model = "ITUF699"
    /\ lastKw.oper_freq_mhz = IntV(23000)
    /\ lastKw.diameter_m = IntV(6)
    /\ lastKw.max_gain_dbi = IntV(45)
    /\ params["d_to_l"].n = DishRatio
    /\ DishGain # 45000
    /\ params["max_gain_dbi"] = IntV(45)

-----------------------------------------------------------------------------
(* Property of the instance shared with a reader (ConcSpec) *)

\* C3: a reader running beside set_params sees the complete ParameterSet
\* from before the call or the complete one the call produces, never a
\* partially resolved one.
C3_ReaderSeesWholeSet == seen.has => seen.p = prev \/ seen.p = target

-----------------------------------------------------------------------------
(* Property of the normalisers (NormSpec) *)

InRange(fn, a) ==
    CASE fn = "off_axis" -> 0 <= a /\ a <= 180000
      [] fn = "azimuth" -> -180000 < a /\ a <= 180000
      [] fn = "elevation" -> -90000 <= a /\ a <= 90000

-----------------------------------------------------------------------------
(* Properties of the patterns (PatternSpec) *)

\* the last export or plot request built the record without an error
Built == request.kind # "" /\ request.err = ""

\* a pattern of 361 points: the angles 0, 1, ..., 360 in this order and as
\* many losses
FullCircle(keys, losses) ==
    /\ Len(keys) = 361
    /\ \A i \in 1..Len(keys) : keys[i] = i - 1
    /\ Len(losses) = Len(keys)

\* C11: once _update_specs has run through, the horizontal and the vertical
\* pattern each hold exactly 361 entries, their angles are the integers
\* 0, 1, ..., 360 in increasing order, and each loss list is as long as its
\* angle list, for every model and configuration.
C11_PatternsHave361Points ==
    Built => /\ FullCircle(specs["h_pattern_datapoint"].phi,
                           specs["h_pattern_datapoint"].loss)
             /\ FullCircle(specs["v_pattern_datapoint"].theta,
                           specs["v_pattern_datapoint"].loss)

\* the record was built again for another configuration than the one whose
\* record the exporter wrote before
C11_Witness ==
    /\ Built
    /\ file # NoFile
    /\ file.header[10][2] # specs["comment"]
    /\ Len(specs["v_pattern_datapoint"].loss) = 361

\* the gain the two queries of the loop return for the i-th angle, with the
\* params the record was built from
GainAt(i) == sweep[request.params][i]

\* the gain the losses of the record are taken from: the configured or
\* derived max_gain_dbi, or in S.465 and S.580 the gain at phi_min rounded
\* to two decimals, which is the record's own gain field
LossReference ==
    IF model \in MarksNone THEN specs["gain"].n
    ELSE request.params["max_gain_dbi"].n

\* the loss entry that goes with a gain g: the marker for None, else the
\* difference rounded to hundredths (exact: the difference itself)
LossFor(g, exact) ==
    IF g.kind # "num" THEN StrV("n/a")
    ELSE IF exact THEN FltV(specs["gain"].n - g.v)
    ELSE FltV(Round2(LossReference - g.v))

LossesFollowGain(exact) ==
    Built =>
        \A i \in 1..361 :
            /\ specs["h_pattern_datapoint"].loss[i]
               = LossFor(GainAt(i).h, exact)
            /\ specs["v_pattern_datapoint"].loss[i]
               = LossFor(IF model \in TwoPlane THEN GainAt(i).v
                        ELSE GainAt(i).h, exact)

C13_NoNegativeLoss ==
    Built =>
        \A i \in 1..361 :
            /\ GainAt(i).h.kind = "num" =>
                /\ GainAt(i).h.v <= LossReference
                /\ specs["h_pattern_datapoint"].loss[i].n >= 0
            /\ specs["v_pattern_datapoint"].loss[i].t # "str" =>
                specs["v_pattern_datapoint"].loss[i].n >= 0

\* the text read back is the text of the record the instance holds
ReadBack == readback # NoRead /\ readback.text = export(specs)

\* a pattern without its entries from the n-th angle on
Upto(pattern, key, n) ==
    [k \in {key, "loss"} |-> SubSeq(pattern[k], 1, Min(n, Len(pattern[k])))]

\* a record with both patterns cut after their n-th entry
Restricted(data, n) ==
    [data EXCEPT
        !["h_pattern_datapoint"] = Upto(@, "phi", n),
        !["v_pattern_datapoint"] = Upto(@, "theta", n)]

-----------------------------------------------------------------------------
(* Properties of the gain off the main beam (QuerySpec) *)

Answered == gainRes # NoGain /\ outcome.status = "ok"

\* the angle the chain is tested at
Tested == IF model = "ITUF1336o" THEN normalize_elevation(query.elevation)
          ELSE IF model = "ITUF1336s" THEN Abs(normalize_azimuth(query.azimuth))
          ELSE normalize_off_axis_angle(query.azimuth)

\* a query that reached the chain with the angle of its stop s
AtStop(s) ==
    /\ Answered
    /\ gainRes.kind # "error"
    /\ s \in Stops(model, params)
    /\ Tested = s.at

Dishes == {"ITUF699", "ITUF1245", "ITUF1336lg"}

\* the configuration for which gain raises at every angle: in the 0.1-1
\* GHz band of F.699 a d_to_l below 0.63
OutOfScope ==
    /\ model = "ITUF699"
    /\ params["freq_band"].s = "0.1-1 GHz"
    /\ params["d_to_l"].n < 630

\* the configuration for which gain raises off the axis: a negative number
\* under the square root of phi_m, which F.1245 Recommends 3 and the
\* low-gain model do not take
NegativeRoot ==
    /\ \/ model = "ITUF699"
       \/ model = "ITUF1245" /\ params["calc_opt"].s = "Rec. 2"
    /\ discriminant(params) < 0

\* C16 as stated: for every resolved configuration of F.699, F.1245 and
\* the low-gain model and every angle in [0, 180] one region is selected,
\* whatever the order of the computed boundaries, and the gain is a number.
C16_GainIsAlwaysANumber ==
    Answered /\ model \in Dishes => gainRes.kind = "num"

\* C16 as amended: for those configurations and angles one region is
\* selected whatever the order of the computed boundaries, so the gain is
\* never None; it is a number unless the query raises, which it does off
\* the axis where the number under the square root of phi_m is negative
\* and, in F.699's 0.1-1 GHz band, at every angle where d_to_l is below
\* 0.63.
C16_GainNeverFallsThrough ==
    Answered /\ model \in Dishes =>
        /\ gainRes.kind \in {"num", "error"}
        /\ gainRes.kind = "error"
           <=> OutOfScope \/ (Tested # 0 /\ NegativeRoot)

\* F.699 with phi_m and 100 / d_to_l both above 48 degrees asked at 48
\* degrees, which the main lobe answers
C16_Witness ==
    /\ Answered
    /\ model = "ITUF699"
    /\ Tested = 48000
    /\ gainRes.kind = "num"
    /\ chain(model, params) # <<>>
    /\ chain(model, params)[1].at > 48000
    /\ chain(model, params)[2].at > 48000

\* the gain of an S.465 instance with the delegate's params at the angle
\* of the query
DelegateGain == gain_ITUS465(delegate, query.azimuth)

\* C19: S.580 asked at an angle at or above phi_min answers, up to 20
\* degrees, with its own level 29 - 25 * log10(phi), from there up to 26.3
\* degrees with the lower of -3.5 and the gain of its S.465 delegate, and
\* beyond with the delegate's gain; the delegate is an S.465 instance of
\* its own, configured with the same d_to_l and nothing else.
C19_S580FollowsDelegate ==
    Answered /\ model = "ITUS580" /\ Tested >= phi_min_ITUS580(params) =>
        /\ delegate = [d_to_l |-> params["d_to_l"]]
        /\ Tested <= 20000 => gainRes = NumRes(29000 - 25 * Log10(Tested))
        /\ 20000 < Tested /\ Tested <= 26300 =>
            gainRes = NumRes(Min(-3500, DelegateGain.v))
        /\ 26300 < Tested => gainRes = DelegateGain /\ gainRes.kind = "num"

\* inside the band the delegate's gain is above -3.5 dB and S.580 answers
\* -3.5 dB; the instance itself holds more than the delegate was given
C19_Witness ==
    /\ Answered
    /\ model = "ITUS580"
    /\ Tested = 23000
    /\ DelegateGain.kind = "num"
    /\ DelegateGain.v > -3500
    /\ gainRes = NumRes(-3500)
    /\ delegate # params
    /\ delegate["d_to_l"] = params["d_to_l"]

\* C20: in F.699 and F.1245 Recommends 2, with a resolved configuration
\* whose max_gain_dbi - (2 + 15 * log10(d_to_l)) is negative, a gain query
\* off the axis raises the error of an invalid derived value, ValueError, in
\* every branch that takes the square root; no angle is compared with a
\* boundary that is not real and no value is returned.
C20_NegativeRootRaisesValueError ==
    Answered /\ NegativeRoot /\ Tested # 0 => gainRes = ErrRes("ValueError")

-----------------------------------------------------------------------------
(* Properties of the S.465 and S.580 records (PatternSpec).                *)

\* a rebuild asked of an S.465 or S.580 instance that holds a d_to_l
DishRequest ==
    /\ model \in MarksNone
    /\ request.kind # ""
    /\ Has(request.params, "d_to_l")

\* phi_min of the configuration the record was asked for
RequestPhiMin ==
    IF model = "ITUS465" THEN phi_min_ITUS465(request.params)
    ELSE phi_min_ITUS580(request.params)

\* C21: the S.465 and S.580 gain is None exactly when the normalised angle
\* is below phi_min and a number at every normalised angle from phi_min to
\* 180 degrees; the gain at phi_min itself, which the record takes as its
\* peak gain, is always defined, so that no rebuild fails on a peak of None.
C21_GainAtPhiMinIsDefined ==
    DishRequest =>
        /\ request.err # "TypeError"
        /\ \A i \in DOMAIN angles :
            /\ GainAt(i).h.kind \in {"num", "undefined"}
            /\ GainAt(i).h.kind = "undefined"
               <=> normalize_off_axis_angle(1000 * angles[i]) < RequestPhiMin

-----------------------------------------------------------------------------
(* Properties of the tilt transform (TiltSpec).                            *)

\* the transform has been applied
Tilted == norm.fn = "tilted"

\* two angles within half a degree of each other, which the thousandths
\* of the sines and cosines resolve away from the poles
Near(a, b) == Abs(a - b) <= 500

NoTilt == params["tilt_type"].s = "none"
ZeroTilt == params["tilt_angle_deg"].n = 0

\* C22: in the sectoral model with the electrical tilt the transform
\* rescales the elevation only, theta = 90 * (theta_h + beta) / (90 + beta)
\* for theta_h + beta >= 0 and 90 * (theta_h + beta) / (90 - beta) below,
\* and returns the normalised azimuth unchanged, for every azimuth,
\* elevation and tilt angle.
C22_ElectricalTiltKeepsAzimuth ==
    Tilted /\ model = "ITUF1336s" /\ params["tilt_type"].s = "electrical" =>
        /\ norm.out.theta
           = rescaled(norm.arg.theta, params["tilt_angle_deg"].n)
        /\ Near(norm.out.phi, norm.arg.phi)

\* C23 as stated: in the sectoral and the omnidirectional model, whenever
\* the tilt type is 'none' or the resolved tilt angle is zero, the transform
\* returns the normalised azimuth and elevation unchanged.
C23_NoneOrZeroTiltIsIdentity ==
    Tilted /\ (NoTilt \/ ZeroTilt) =>
        /\ Near(norm.out.phi, norm.arg.phi)
        /\ Near(norm.out.theta, norm.arg.theta)

\* C23: the omnidirectional model returns the elevation unchanged whenever
\* the tilt type is 'none' or the resolved tilt angle is zero; the sectoral
\* model returns the pair unchanged whenever the tilt type is 'none', with
\* which the resolved tilt angle is zero, and with another tilt type and
\* the angle zero applies the formulas, which return the azimuth without
\* its sign.
C23_NoneTiltIsIdentity ==
    Tilted =>
        /\ model = "ITUF1336o" /\ (NoTilt \/ ZeroTilt) => norm.out = norm.arg
        /\ model = "ITUF1336s" /\ NoTilt => norm.out = norm.arg /\ ZeroTilt
        /\ model = "ITUF1336s" /\ ~NoTilt /\ ZeroTilt =>
            /\ norm.out.phi >= 0
            /\ Near(norm.out.phi, Abs(norm.arg.phi))
            /\ Near(norm.out.theta, norm.arg.theta)

\* the sectoral model configured without tilt but with a tilt angle, asked
\* to the left of the main beam
C23_Witness ==
    /\ Tilted
    /\ model = "ITUF1336s"
    /\ NoTilt
    /\ ~IsNone(lastKw["tilt_angle_deg"])
    /\ norm.arg.phi < 0
    /\ norm.out = norm.arg

-----------------------------------------------------------------------------
(* Properties of the record's scalar fields (PatternSpec).                 *)

\* gain at 0 degrees minus gain at 180 degrees of the configuration the
\* record was asked for, to two decimals
FrontMinusBack == FltV(Round2(GainAt(1).h.v - GainAt(181).h.v))

FreshRecord ==
    update_specs(model, request.params, EmptyDict, NoSpecs, sweep).specs

\* C25: every export or plot request recomputes the whole record from the
\* instance's current params before the consumer sees it: after
\* set_params(A), export, set_params(B), export the record handed over has
\* every scalar field and both patterns computed from B and nothing left
\* over from A, and the text written is the text of that record.
C25_RecordIsRebuiltFromCurrentParams ==
    Built =>
        /\ specs = FreshRecord
        /\ request.kind = "export" => file = export(FreshRecord)

\* a record exported, the instance configured anew and its patterns shown:
\* the file holds the earlier record, which differs in a scalar field and
\* in a pattern
C25_Witness ==
    /\ Built
    /\ request.kind = "show_patterns"
    /\ file # NoFile
    /\ params # prev
    /\ prev # EmptyDict
    /\ file.header # export(specs).header
    /\ file.horizontal # export(specs).horizontal
    /\ specs = FreshRecord

-----------------------------------------------------------------------------
(* Properties of what a gain query leaves behind (Spec).                   *)

-----------------------------------------------------------------------------
(* Properties of the elevation normaliser's loop (LoopLive).               *)

\* C27: the reflect-at-the-poles loop of the elevation normaliser
\* terminates for every finite input angle, and on exit the angle lies in
\* [-90, 90].
C27_ElevationLoopTerminates ==
    /\ (norm.fn = "loop") ~> (norm.fn = "return")
    /\ [](norm.fn = "return" =>
            ~norm.out.big /\ -90000 <= norm.out.n /\ norm.out.n <= 90000)

-----------------------------------------------------------------------------
(* Properties of the instance that was never configured (ColdSpec).        *)

\* C28: a gain query returns a value, a number or None, only if some
\* set_params call on the instance has completed successfully before: on an
\* instance that was never configured or whose configuration calls have
\* all failed, every gain query fails.
C28_NoGainBeforeConfiguration ==
    outcome.status # "ok" /\ gainRes # NoGain => gainRes.kind = "error"

-----------------------------------------------------------------------------
(* Properties of the record left by a rebuild that raises (PatternSpec).   *)

\* the record as _update_specs leaves it, run through or not, on an
\* instance of the params p that has never built one
RecordOf(p) == update_specs(model, p, EmptyDict, NoSpecs, sweep).specs

\* C29: the record an instance holds is always of one configuration: its
\* scalar fields and both patterns were all computed from the same params,
\* also when a rebuild is aborted part-way by a gain query that raises
\* after a rebuild for another configuration had run through.
C29_RecordIsOfOneConfiguration ==
    \/ specs = NoSpecs
    \/ \E p \in Resolved(model) \cup {EmptyDict} : specs = RecordOf(p)

-----------------------------------------------------------------------------
(* Properties of the S.465 delegate of S.580 (DelegateSpec).               *)

\* the last query went past 20 degrees and past phi_min: the delegate was
\* evaluated
DelegateEvaluated ==
    /\ gainRes # NoGain
    /\ Has(params, "d_to_l")
    /\ Tested > 20000
    /\ Tested >= phi_min_ITUS580(params)

\* an S.465 instance given the owner's d_to_l and nothing else
OwnersDelegate == [d_to_l |-> params["d_to_l"]]

\* C30: whenever S.580 evaluates its S.465 delegate, the delegate's d_to_l
\* is the owner's current d_to_l: after any sequence of set_params and gain
\* calls, the owner configured anew with another d_to_l included, the
\* answer is that of a delegate of the owner's current configuration, and
\* the delegate is never queried while it is unconfigured.
C30_DelegateFollowsOwner ==
    DelegateEvaluated =>
        /\ delegate = OwnersDelegate
        /\ gainRes.err # "KeyError"
        /\ gainRes = regions_ITUS580(params, Tested,
                                     gain_ITUS465(OwnersDelegate, Tested))

\* the owner configured a second time with another d_to_l and asked at 30
\* degrees
C30_Witness ==
    /\ DelegateEvaluated
    /\ Has(prev, "d_to_l")
    /\ prev["d_to_l"] # params["d_to_l"]
    /\ Tested = 30000
    /\ gainRes.kind = "num"
    /\ delegate = OwnersDelegate

====
